---- MODULE Spec2Model ----
(***************************************************************************)
(* Model of the risk engine of the financial-risk-insights platform:      *)
(*   monte_carlo_engine.py   MonteCarloEngine and its command line         *)
(*   monte_carlo_var.py      MonteCarloVaRCalculator and its command line  *)
(*   portfolio_optimizer.py  PortfolioOptimizer and its command line       *)
(*   quant_models.py         the model registry and execute_model          *)
(*                                                                         *)
(* Numbers are exact rationals [n |-> numerator, d |-> denominator > 0],   *)
(* confidence levels included.                                             *)
(* An exception that leaves an operation is recorded in exc.               *)
(***************************************************************************)
EXTENDS Integers, Sequences, FiniteSets, TLC

VARIABLES
    sample,             \* risk metrics: the return sample under measurement
    conf,               \* risk metrics: the confidence level
    riskOut,            \* risk metrics: what each implementation returned
    np_random,          \* numpy's module-level generator: seed and draws taken
    parameters,         \* MonteCarloEngine.parameters
    rng,                \* MonteCarloEngine.rng: seed and number of draws taken
    optParameters,      \* PortfolioOptimizer.parameters
    assets,             \* PortfolioOptimizer.assets
    expected_returns,   \* PortfolioOptimizer.expected_returns
    covariance_matrix,  \* PortfolioOptimizer.covariance_matrix
    call,               \* the last operation called and its arguments
    ret,                \* what it returned
    exc                 \* the exception that left it, if any

riskVars == <<sample, conf, riskOut, np_random>>
engineVars == <<parameters, rng>>
optVars == <<optParameters, assets, expected_returns, covariance_matrix>>
callVars == <<call, ret, exc>>
vars == <<sample, conf, riskOut, np_random, parameters, rng, optParameters, assets,
          expected_returns, covariance_matrix, call, ret, exc>>

\* ------------------------------------------------------------------------
\* Bounds of the model
\* ------------------------------------------------------------------------
MaxLen == 3
MaxVal == 2

\* ------------------------------------------------------------------------
\* Exact arithmetic
\* ------------------------------------------------------------------------
Abs(x) == IF x < 0 THEN -x ELSE x

RECURSIVE GCD(_, _)
GCD(a, b) == IF b = 0 THEN a ELSE GCD(b, a % b)

Rat(num, den) ==
    LET g == GCD(Abs(num), Abs(den))
        s == IF den < 0 THEN -1 ELSE 1
    IN  [n |-> (s * num) \div g, d |-> (s * den) \div g]

RInt(k) == [n |-> k, d |-> 1]
RAdd(x, y) == Rat(x.n * y.d + y.n * x.d, x.d * y.d)
RSub(x, y) == Rat(x.n * y.d - y.n * x.d, x.d * y.d)
RMul(x, y) == Rat(x.n * y.n, x.d * y.d)
RDiv(x, y) == Rat(x.n * y.d, x.d * y.n)
RNeg(x) == [n |-> -x.n, d |-> x.d]
RLeq(x, y) == x.n * y.d <= y.n * x.d
RLt(x, y) == x.n * y.d < y.n * x.d

RECURSIVE RSum(_)
RSum(s) == IF s = <<>> THEN RInt(0) ELSE RAdd(Head(s), RSum(Tail(s)))

\* np.mean of a non-empty sample
RMean(s) == RDiv(RSum(s), RInt(Len(s)))

\* np.sort: ascending order
NpSort(s) == SortSeq(s, LAMBDA x, y : RLt(x, y))

\* s[returns <= t]: boolean-mask selection, order kept
RECURSIVE MaskLeq(_, _)
MaskLeq(s, t) ==
    IF s = <<>> THEN <<>>
    ELSE IF RLeq(Head(s), t) THEN <<Head(s)>> \o MaskLeq(Tail(s), t)
         ELSE MaskLeq(Tail(s), t)

\* The outcome of a computation: a value, or an exception on its way up
Ok(v) == [raised |-> FALSE, value |-> v]
Raise(type, msg) == [raised |-> TRUE, type |-> type, msg |-> msg]

\* No exception
NoExc == [raised |-> FALSE]

\* int(x) of Python: truncation towards zero, x = num / den with den > 0
PyInt(num, den) == IF num >= 0 THEN num \div den ELSE -((-num) \div den)

\* ------------------------------------------------------------------------
\* Risk metric calculator
\* ------------------------------------------------------------------------
\* np.percentile(s, (1 - c) * 100), linear interpolation between the two
\* order statistics around the virtual index h = (n - 1) * (1 - c).
\* ValueError when the percentile is outside [0, 100].
Interpolate(a, h) ==
    IF h.n % h.d = 0 THEN a[(h.n \div h.d) + 1]
    ELSE RAdd(a[(h.n \div h.d) + 1],
              RMul(RSub(h, RInt(h.n \div h.d)),
                   RSub(a[(h.n \div h.d) + 2], a[(h.n \div h.d) + 1])))

NpPercentile(s, c) ==
    IF RLt(c, RInt(0)) \/ RLt(RInt(1), c)
    THEN Raise("ValueError", "Percentiles must be in the range [0, 100]")
    ELSE Ok(Interpolate(NpSort(s), RMul(RInt(Len(s) - 1), RSub(RInt(1), c))))

\* -q of a quantile q, and the exception when the quantile raised
Negated(q) == IF q.raised THEN q ELSE Ok(RNeg(q.value))

\* MonteCarloEngine._calculate_var
EngineVar(s, c) == Negated(NpPercentile(s, c))

\* -np.mean(tail_returns) if len(tail_returns) > 0 else otherwise
TailLoss(tail_returns, otherwise) ==
    IF Len(tail_returns) > 0 THEN RNeg(RMean(tail_returns)) ELSE otherwise

\* MonteCarloEngine._calculate_cvar, var being what _calculate_var gave
CvarBelow(s, var) ==
    IF var.raised THEN var
    ELSE Ok(TailLoss(MaskLeq(s, RNeg(var.value)), RInt(0)))

EngineCvar(s, c) == CvarBelow(s, EngineVar(s, c))

\* MonteCarloVaRCalculator._calculate_var_cvar: the order statistic at
\* int((1 - c) * n) and the mean of the values before it.
CalcVarIndex(s, c) ==
    PyInt(RMul(RSub(RInt(1), c), RInt(Len(s))).n,
          RMul(RSub(RInt(1), c), RInt(Len(s))).d)

\* A tail taken from the threshold upwards: sorted_returns[var_index:]
CalcTailUpper(sorted_returns, j) ==
    SubSeq(sorted_returns, j + 1, Len(sorted_returns))

\* sorted_returns[:var_index]
CalcTail(sorted_returns, j) == SubSeq(sorted_returns, 1, j)

\* var, cvar and the size of the tail, j being the position of var_index
\* from the start of sorted_returns
VarCvarAt(sorted_returns, j) ==
    [var |-> RNeg(sorted_returns[j + 1]),
     cvar |-> TailLoss(CalcTail(sorted_returns, j), RNeg(sorted_returns[j + 1])),
     tail |-> Len(CalcTail(sorted_returns, j))]

\* Python index i on a sequence of length n: i in -n .. n-1
PyIndex(n, i) ==
    IF i >= n \/ i < -n THEN Raise("IndexError", "index out of bounds")
    ELSE Ok(IF i < 0 THEN n + i ELSE i)

VarCvarIndexed(sorted_returns, j) ==
    IF j.raised THEN j ELSE Ok(VarCvarAt(sorted_returns, j.value))

CalcVarCvar(s, c) ==
    VarCvarIndexed(NpSort(s), PyIndex(Len(s), CalcVarIndex(s, c)))

\* quant_models._var_historical
HistoricalResult(s, q) ==
    IF q.raised THEN q
    ELSE Ok([var |-> RNeg(q.value), sample_size |-> Len(s)])

VarHistorical(s, c) ==
    IF Len(s) = 0 THEN Raise("ValueError", "No returns data provided")
    ELSE HistoricalResult(s, NpPercentile(s, c))

\* quant_models._cvar_calculation
CvarOfTail(var, tail_returns) ==
    [var |-> var, cvar |-> TailLoss(tail_returns, var),
     tail |-> Len(tail_returns)]

\* tail_returns = returns[returns <= -var]
CvarFromVar(s, var) == CvarOfTail(var, MaskLeq(s, RNeg(var)))

CvarResult(s, q) ==
    IF q.raised THEN q ELSE Ok(CvarFromVar(s, RNeg(q.value)))

CvarCalculation(s, c) ==
    IF Len(s) = 0 THEN Raise("ValueError", "No returns data provided")
    ELSE CvarResult(s, NpPercentile(s, c))

\* ------------------------------------------------------------------------
\* MonteCarloEngine: single-asset simulation
\* ------------------------------------------------------------------------
\* Python's None, as a field value or an element of a list
None == [none |-> TRUE]

IsNumber(x) == x # None

Range(f) == {f[i] : i \in DOMAIN f}

\* x ** 0.5 as np.sqrt gives it: the exact root of a square, and otherwise
\* the unevaluated root
RSqrt(x) ==
    LET rn == {k \in 0..x.n : k * k = x.n}
        rd == {k \in 1..x.d : k * k = x.d}
    IN  IF rn # {} /\ rd # {}
        THEN Rat(CHOOSE k \in rn : TRUE, CHOOSE k \in rd : TRUE)
        ELSE [sqrt |-> x]

\* dev ** k for the central moments of order 2, 3 and 4
Power(dev, k) ==
    IF k = 2 THEN RMul(dev, dev)
    ELSE IF k = 3 THEN RMul(dev, RMul(dev, dev))
    ELSE RMul(RMul(dev, dev), RMul(dev, dev))

\* sum of (x - m)^k over the sample
RECURSIVE PowerSum(_, _, _)
PowerSum(s, m, k) ==
    IF s = <<>> THEN RInt(0)
    ELSE RAdd(Power(RSub(Head(s), m), k), PowerSum(Tail(s), m, k))

\* np.std(s, ddof=1) of a sample of at least two values
StdDdof1(s) == RSqrt(RDiv(PowerSum(s, RMean(s), 2), RInt(Len(s) - 1)))

\* scipy.stats.skew and kurtosis, kept as the central moments they divide
Skew(s) == [m3 |-> RDiv(PowerSum(s, RMean(s), 3), RInt(Len(s))),
            m2 |-> RDiv(PowerSum(s, RMean(s), 2), RInt(Len(s)))]
Kurtosis(s) == [m4 |-> RDiv(PowerSum(s, RMean(s), 4), RInt(Len(s))),
                m2 |-> RDiv(PowerSum(s, RMean(s), 2), RInt(Len(s)))]

\* MonteCarloEngine._estimate_parameters: np.mean and np.std(ddof=1) of the
\* history; a None among the returns makes np.mean raise
EstimateParameters(returns) ==
    IF \E i \in DOMAIN returns : ~IsNumber(returns[i])
    THEN Raise("TypeError", "unsupported operand type(s) for +: 'NoneType' and 'float'")
    ELSE Ok([mean |-> RMean(returns), volatility |-> StdDdof1(returns)])

\* The generator's stream: the k-th standard normal and standard t variate
\* drawn from a generator seeded with seed
StandardNormal(seed, k) == RInt(((seed + k * (k + seed)) % 5) - 2)
StandardT(seed, k) == RInt(((2 * seed + k * k + 1) % 7) - 3)

\* MonteCarloEngine._normal_distribution: rng.normal(mean, volatility, n)
NormalDistribution(p, g, mean, volatility) ==
    IF RLt(volatility, RInt(0)) THEN Raise("ValueError", "scale < 0")
    ELSE Ok([returns |-> [i \in 1..p.num_simulations |->
                            RAdd(mean, RMul(volatility,
                                            StandardNormal(g.seed, g.pos + i)))],
             rng |-> [g EXCEPT !.pos = @ + p.num_simulations]])

\* MonteCarloEngine._t_student_distribution
TStudentDistribution(p, g, mean, volatility) ==
    Ok([returns |-> [i \in 1..p.num_simulations |->
                       RAdd(mean, RMul(volatility, StandardT(g.seed, g.pos + i)))],
        rng |-> [g EXCEPT !.pos = @ + p.num_simulations]])

\* MonteCarloEngine._setup_distributions: the families with a generator
Distributions == {"normal", "t_student", "garch", "copula", "mixture"}

\* MonteCarloEngine._generate_returns: the family's generator, and the
\* normal one for a family without a generator. The copula generator is the
\* normal one; the engines here are not given the garch or mixture family.
GenerateReturns(p, g, mean, volatility) ==
    IF p.distribution_type \in Distributions /\ p.distribution_type = "t_student"
    THEN TStudentDistribution(p, g, mean, volatility)
    ELSE NormalDistribution(p, g, mean, volatility)

\* initial_price * np.exp(ret): the price is kept as its two factors
SimulatedPrices(asset, returns) ==
    IF ~IsNumber(asset.initial_price)
    THEN Raise("TypeError", "unsupported operand type(s) for *: 'NoneType' and 'float'")
    ELSE Ok([i \in DOMAIN returns |->
                [initial_price |-> asset.initial_price, exp |-> returns[i]]])

\* The first confidence level, in the order of the list, whose VaR raises
FirstRaised(levels, vars_) ==
    CHOOSE i \in DOMAIN levels :
        /\ vars_[levels[i]].raised
        /\ \A j \in 1..(i - 1) : ~vars_[levels[j]].raised

\* The loop over confidence_levels, vars_ being _calculate_var at each level:
\* the first level that raises ends the loop
RiskLoop(returns, levels, vars_) ==
    IF \E i \in DOMAIN levels : vars_[levels[i]].raised
    THEN vars_[levels[FirstRaised(levels, vars_)]]
    ELSE Ok([var_values |-> [c \in Range(levels) |-> vars_[c].value],
             cvar_values |-> [c \in Range(levels) |->
                                CvarBelow(returns, vars_[c]).value]])

RiskValues(returns, levels) ==
    RiskLoop(returns, levels,
             [c \in Range(levels) |-> EngineVar(returns, c)])

\* MonteCarloEngine._calculate_percentiles
PercentileKeys == {Rat(q, 100) : q \in {1, 5, 10, 25, 50, 75, 90, 95, 99}}
CalculatePercentiles(returns) ==
    [q \in PercentileKeys |-> NpPercentile(returns, RSub(RInt(1), q)).value]

\* An except branch that leaves success at the default of the dataclass
FailedSimulationUnflagged(msg) ==
    [simulated_returns |-> <<>>, simulated_prices |-> <<>>,
     var_values |-> <<>>, cvar_values |-> <<>>,
     expected_value |-> RInt(0), standard_deviation |-> RInt(0),
     skewness |-> RInt(0), kurtosis |-> RInt(0), percentiles |-> <<>>,
     success |-> TRUE, error_message |-> msg, simulation_metadata |-> <<>>]

\* The SimulationResult of the except branch
FailedSimulation(msg) ==
    [simulated_returns |-> <<>>, simulated_prices |-> <<>>,
     var_values |-> <<>>, cvar_values |-> <<>>,
     expected_value |-> RInt(0), standard_deviation |-> RInt(0),
     skewness |-> RInt(0), kurtosis |-> RInt(0), percentiles |-> <<>>,
     success |-> FALSE, error_message |-> msg, simulation_metadata |-> <<>>]

\* The SimulationResult of a simulation that went through
SimulationDone(p, est, returns, prices, risk) ==
    [simulated_returns |-> returns,
     simulated_prices |-> prices,
     var_values |-> risk.var_values,
     cvar_values |-> risk.cvar_values,
     expected_value |-> RMean(returns),
     standard_deviation |-> StdDdof1(returns),
     skewness |-> Skew(returns),
     kurtosis |-> Kurtosis(returns),
     percentiles |-> CalculatePercentiles(returns),
     success |-> TRUE, error_message |-> "",
     simulation_metadata |->
        [distribution_type |-> p.distribution_type,
         num_simulations |-> p.num_simulations,
         estimated_mean |-> est.mean,
         estimated_volatility |-> est.volatility,
         time_horizon |-> p.time_horizon]]

\* mean_return and volatility taken from the scalars of the asset
MeanAndVolatilityScalars(asset) ==
    Ok([mean |-> asset.expected_return, volatility |-> asset.volatility])

\* mean_return and volatility: estimated from the history when there is one
MeanAndVolatility(asset) ==
    IF asset.historical_returns # <<>>
    THEN EstimateParameters(asset.historical_returns)
    ELSE Ok([mean |-> asset.expected_return, volatility |-> asset.volatility])

\* simulate_single_asset from its risk loop on
AfterRisk(p, est, gen, prices, risk) ==
    IF risk.raised
    THEN [result |-> FailedSimulation(risk.msg), rng |-> gen.rng,
          step |-> "risk", caught |-> risk]
    ELSE [result |-> SimulationDone(p, est, gen.returns, prices, risk.value),
          rng |-> gen.rng, step |-> "done", caught |-> NoExc]

\* simulate_single_asset from the simulated prices on
AfterPrices(p, est, gen, prices) ==
    IF prices.raised
    THEN [result |-> FailedSimulation(prices.msg), rng |-> gen.rng,
          step |-> "prices", caught |-> prices]
    ELSE AfterRisk(p, est, gen, prices.value,
                   RiskValues(gen.returns, p.confidence_levels))

\* simulate_single_asset from the generated returns on
AfterReturns(p, g, asset, est, gen) ==
    IF gen.raised
    THEN [result |-> FailedSimulation(gen.msg), rng |-> g,
          step |-> "generate", caught |-> gen]
    ELSE AfterPrices(p, est, gen.value,
                     SimulatedPrices(asset, gen.value.returns))

\* simulate_single_asset from the estimate on
AfterEstimate(p, g, asset, est) ==
    IF est.raised
    THEN [result |-> FailedSimulation(est.msg), rng |-> g,
          step |-> "estimate", caught |-> est]
    ELSE AfterReturns(p, g, asset, est.value,
            GenerateReturns(p, g, est.value.mean, est.value.volatility))

\* MonteCarloEngine.simulate_single_asset: the result, the generator after
\* the call, the last step that was entered and the exception the except
\* branch caught, if any
SimulateSingleAsset(p, g, asset) ==
    AfterEstimate(p, g, asset, MeanAndVolatility(asset))

\* ------------------------------------------------------------------------
\* MonteCarloEngine: stress test
\* ------------------------------------------------------------------------
\* dict.get(key, default)
Get(d, key, default) == IF key \in DOMAIN d THEN d[key] ELSE default

\* a * b of two Python values: TypeError when one of them is None
PyMul(a, b) ==
    IF IsNumber(a) /\ IsNumber(b) THEN Ok(RMul(a, b))
    ELSE Raise("TypeError", "unsupported operand type(s) for *: 'float' and 'NoneType'")

\* A stressed asset that leaves the history behind, so that its scalars are
\* what the simulation uses
StressedFromScalars(asset, er, vol) ==
    IF er.raised THEN er
    ELSE IF vol.raised THEN vol
    ELSE Ok([asset EXCEPT !.expected_return = er.value,
                          !.volatility = vol.value,
                          !.historical_returns = <<>>])

\* AssetParameters(...) of a scenario from its two products
StressedFrom(asset, er, vol) ==
    IF er.raised THEN er
    ELSE IF vol.raised THEN vol
    ELSE Ok([asset EXCEPT !.expected_return = er.value,
                          !.volatility = vol.value])

\* The stressed AssetParameters of one scenario; stress_params.get raises
\* when the scenario's value is no mapping
StressedAsset(asset, stress_params) ==
    IF stress_params = None
    THEN Raise("AttributeError", "'NoneType' object has no attribute 'get'")
    ELSE StressedFrom(asset,
            PyMul(asset.expected_return,
                  Get(stress_params, "return_multiplier", RInt(1))),
            PyMul(asset.volatility,
                  Get(stress_params, "volatility_multiplier", RInt(1))))

\* The metadata entries perform_stress_test writes into a finished result
TagScenario(result, scenario_name, stress_params) ==
    [result EXCEPT !.simulation_metadata =
        [stress_scenario |-> scenario_name, stress_parameters |-> stress_params]
        @@ result.simulation_metadata]

\* results[scenario_name] = result
Store(results, scenario_name, result) ==
    [n \in (DOMAIN results) \cup {scenario_name} |->
        IF n = scenario_name THEN result ELSE results[n]]

RECURSIVE PerformStressTest(_, _, _, _, _, _)

\* The body of the loop after the simulation of the stressed asset
StressSimulated(p, asset, scenarios, i, results, sim) ==
    PerformStressTest(p, sim.rng, asset, scenarios, i + 1,
        Store(results, scenarios[i].name,
              TagScenario(sim.result, scenarios[i].name, scenarios[i].params)))

\* The body of the loop after the construction of the stressed asset
StressScenario(p, g, asset, scenarios, i, results, stressed) ==
    IF stressed.raised THEN [out |-> stressed, rng |-> g]
    ELSE StressSimulated(p, asset, scenarios, i, results,
                         SimulateSingleAsset(p, g, stressed.value))

\* MonteCarloEngine.perform_stress_test: the scenarios in their order, from
\* the i-th on; results maps the names done so far to their results
PerformStressTest(p, g, asset, scenarios, i, results) ==
    IF i > Len(scenarios)
    THEN [out |-> Ok(results), rng |-> g]
    ELSE StressScenario(p, g, asset, scenarios, i, results,
                        StressedAsset(asset, scenarios[i].params))

\* ------------------------------------------------------------------------
\* MonteCarloEngine: portfolio simulation
\* ------------------------------------------------------------------------
\* A value is a number, or an expression in an unevaluated root
IsNum(x) == "n" \in DOMAIN x

\* The second row of the factor, l21 being its first entry
CholeskyRow(a, l21, pivot) ==
    IF ~RLt(RInt(0), pivot)
    THEN Raise("LinAlgError", "2-th leading minor not positive definite")
    ELSE Ok(<<(<<RSqrt(a), RInt(0)>>), (<<l21, RSqrt(pivot)>>)>>)

CholeskyPivot(m, l21) ==
    CholeskyRow(m[1][1], l21, RSub(m[2][2], RMul(l21, l21)))

\* scipy.linalg.cholesky(m, lower=True) of a 2-by-2 matrix: LinAlgError when
\* a pivot is not positive
Cholesky(m) ==
    IF ~RLt(RInt(0), m[1][1])
    THEN Raise("LinAlgError", "1-th leading minor not positive definite")
    ELSE CholeskyPivot(m, RDiv(m[2][1], RSqrt(m[1][1])))

\* asset_mean + asset_vol * x, unevaluated when asset_vol is a root
ScaleShift(mean, vol, x) ==
    IF IsNum(vol) THEN RAdd(mean, RMul(vol, x))
    ELSE [base |-> mean, sqrt |-> vol.sqrt, times |-> x]

\* rng.standard_normal((n_assets, N))[i][k]
IndependentSample(p, g, i, k) ==
    StandardNormal(g.seed, g.pos + (i - 1) * p.num_simulations + k)

\* (L @ independent_samples)[i][k]
CorrelatedSample(p, g, L, i, k) ==
    RSum([j \in 1..Len(L) |-> RMul(L[i][j], IndependentSample(p, g, j, k))])

\* The generator after standard_normal((n_assets, N))
Drawn(p, g, n_assets) == [g EXCEPT !.pos = @ + n_assets * p.num_simulations]

\* _generate_correlated_returns after the factorization; except LinAlgError
\* gives the independent series
CorrelatedFrom(p, g, asset_results, L) ==
    IF L.raised
    THEN [out |-> Ok([i \in DOMAIN asset_results |->
                        asset_results[i].simulated_returns]),
          rng |-> g, correlated |-> FALSE, fallback |-> TRUE]
    ELSE IF Len(L.value) # Len(asset_results)
    THEN [out |-> Raise("ValueError", "matmul: mismatch in its core dimension"),
          rng |-> Drawn(p, g, Len(asset_results)), correlated |-> FALSE,
          fallback |-> FALSE]
    ELSE [out |-> Ok([i \in DOMAIN asset_results |->
                    [k \in 1..p.num_simulations |->
                        ScaleShift(asset_results[i].expected_value,
                                   asset_results[i].standard_deviation,
                                   CorrelatedSample(p, g, L.value, i, k))]]),
          rng |-> Drawn(p, g, Len(asset_results)), correlated |-> TRUE,
          fallback |-> FALSE]

\* MonteCarloEngine._generate_correlated_returns: out is the list of series,
\* correlated tells whether the factorization was applied, fallback whether
\* the except branch gave the series
GenerateCorrelatedReturns(p, g, asset_results, correlation_matrix) ==
    CorrelatedFrom(p, g, asset_results, Cholesky(correlation_matrix))

RECURSIVE SimulateAssets(_, _, _, _, _)

SimulatedAsset(p, assets_, i, acc, sim) ==
    SimulateAssets(p, sim.rng, assets_, i + 1, Append(acc, sim.result))

\* simulate_single_asset on each asset in turn, on the engine's one generator
SimulateAssets(p, g, assets_, i, acc) ==
    IF i > Len(assets_) THEN [results |-> acc, rng |-> g]
    ELSE SimulatedAsset(p, assets_, i, acc, SimulateSingleAsset(p, g, assets_[i]))

\* The PortfolioSimulationResult of the except branch
FailedPortfolio(msg) ==
    [portfolio_returns |-> <<>>, portfolio_values |-> <<>>,
     portfolio_var |-> <<>>, portfolio_cvar |-> <<>>,
     expected_return |-> RInt(0), portfolio_volatility |-> RInt(0),
     asset_results |-> <<>>, var_contributions |-> <<>>,
     marginal_var |-> <<>>, component_var |-> <<>>,
     diversification_ratio |-> RInt(1),
     success |-> FALSE, error_message |-> msg, simulation_metadata |-> <<>>]

\* np.array(portfolio.weights) / total_weight
NormalizedWeights(weights) ==
    [j \in DOMAIN weights |-> RDiv(weights[j], RSum(weights))]

\* A weighted sum, left as its terms when a term holds a root
WeightedSum(weights, values) ==
    IF \A j \in DOMAIN values : IsNum(values[j])
    THEN RSum([j \in DOMAIN values |-> RMul(weights[j], values[j])])
    ELSE [terms |-> [j \in DOMAIN values |-> [w |-> weights[j], r |-> values[j]]]]

\* What the aggregation loop does with asset j in its first pass: reads its
\* series, then its weight, then multiplies its price
AssetFailure(portfolio, normalized_weights, correlated_returns, j) ==
    IF Len(correlated_returns[j]) = 0
    THEN Raise("IndexError", "list index out of range")
    ELSE IF j > Len(normalized_weights)
    THEN Raise("IndexError", "index is out of bounds for axis 0")
    ELSE IF ~IsNumber(portfolio.assets[j].initial_price)
    THEN Raise("TypeError", "unsupported operand type(s) for *: 'NoneType' and 'float'")
    ELSE Ok(j)

\* The first asset, in the order of the list, at which the loop fails
FirstFailure(fails) ==
    CHOOSE j \in DOMAIN fails :
        fails[j].raised /\ \A k \in 1..(j - 1) : ~fails[k].raised

\* The aggregation loop, fails being what it does with each asset: its
\* first failure, if any, else the returns and values of the portfolio
AggregateLoop(p, portfolio, normalized_weights, correlated_returns, fails) ==
    IF \E j \in DOMAIN fails : fails[j].raised
    THEN fails[FirstFailure(fails)]
    ELSE Ok([returns |-> [i \in 1..p.num_simulations |->
                WeightedSum(normalized_weights,
                            [j \in DOMAIN fails |-> correlated_returns[j][i]])],
             values |-> [i \in 1..p.num_simulations |->
                [j \in DOMAIN fails |->
                    [w |-> normalized_weights[j],
                     initial_price |-> portfolio.assets[j].initial_price,
                     exp |-> correlated_returns[j][i]]]]])

Aggregate(p, portfolio, normalized_weights, correlated_returns) ==
    AggregateLoop(p, portfolio, normalized_weights, correlated_returns,
        [j \in 1..Len(portfolio.assets) |->
            AssetFailure(portfolio, normalized_weights, correlated_returns, j)])

\* VaR and CVaR of the portfolio returns at each level; a series that holds
\* an unevaluated root has an unevaluated quantile
Unevaluated == [unevaluated |-> TRUE]

PortfolioRisk(returns, levels) ==
    IF \A i \in DOMAIN returns : IsNum(returns[i])
    THEN RiskValues(returns, levels)
    ELSE IF \E i \in DOMAIN levels : NpPercentile(<<RInt(0)>>, levels[i]).raised
    THEN Raise("ValueError", "Percentiles must be in the range [0, 100]")
    ELSE Ok([var_values |-> [c \in Range(levels) |-> Unevaluated],
             cvar_values |-> [c \in Range(levels) |-> Unevaluated]])

\* The confidence level of the risk attribution
AttributionLevel == Rat(95, 100)

\* asset_results[i].var_values.get(0.95, 0.0) of each asset
MarginalVar(portfolio, asset_results) ==
    [i \in DOMAIN portfolio.assets |->
        Get(asset_results[i].var_values, AttributionLevel, RInt(0))]

\* weight * asset_var of each asset
ComponentVar(normalized_weights, marginal_var) ==
    [i \in DOMAIN marginal_var |-> RMul(normalized_weights[i], marginal_var[i])]

\* undiversified_var / diversified_var if diversified_var > 0 else 1.0
DiversificationRatio(undiversified_var, diversified_var) ==
    IF ~IsNum(diversified_var) THEN Unevaluated
    ELSE IF RLt(RInt(0), diversified_var)
         THEN RDiv(undiversified_var, diversified_var) ELSE RInt(1)

\* np.mean and np.std(ddof=1) of the portfolio returns
PortfolioMoment(returns, moment) ==
    IF \E i \in DOMAIN returns : ~IsNum(returns[i]) THEN Unevaluated
    ELSE IF moment = "mean" THEN RMean(returns) ELSE StdDdof1(returns)

\* The PortfolioSimulationResult of a simulation that went through
PortfolioDone(portfolio, normalized_weights, asset_results, agg, risk, marginal_var, component_var, diversification_ratio) ==
    [portfolio_returns |-> agg.returns,
     portfolio_values |-> agg.values,
     portfolio_var |-> risk.var_values,
     portfolio_cvar |-> risk.cvar_values,
     expected_return |-> PortfolioMoment(agg.returns, "mean"),
     portfolio_volatility |-> PortfolioMoment(agg.returns, "std"),
     asset_results |-> asset_results,
     var_contributions |-> component_var,
     marginal_var |-> marginal_var,
     component_var |-> component_var,
     diversification_ratio |-> diversification_ratio,
     success |-> TRUE, error_message |-> "",
     simulation_metadata |->
        [num_assets |-> Len(portfolio.assets),
         portfolio_weights |-> normalized_weights,
         diversification_ratio |-> diversification_ratio,
         correlation_used |-> portfolio.correlation_matrix # None]]

\* The risk attribution from the component VaRs on
Attributed(portfolio, normalized_weights, asset_results, agg, risk, marginal_var, component_var) ==
    PortfolioDone(portfolio, normalized_weights, asset_results, agg, risk,
        marginal_var, component_var,
        DiversificationRatio(RSum(component_var),
                             Get(risk.var_values, AttributionLevel, RInt(0))))

\* The risk attribution from the marginal VaRs on
Attribution(portfolio, normalized_weights, asset_results, agg, risk, marginal_var) ==
    Attributed(portfolio, normalized_weights, asset_results, agg, risk,
               marginal_var, ComponentVar(normalized_weights, marginal_var))

\* simulate_portfolio from its risk loop on
AfterPortfolioRisk(portfolio, normalized_weights, asset_results, corr, agg, risk) ==
    IF risk.raised
    THEN [result |-> FailedPortfolio(risk.msg), rng |-> corr.rng,
          correlated |-> corr.correlated, fallback |-> corr.fallback]
    ELSE [result |-> Attribution(portfolio, normalized_weights, asset_results,
                        agg, risk.value, MarginalVar(portfolio, asset_results)),
          rng |-> corr.rng, correlated |-> corr.correlated,
          fallback |-> corr.fallback]

\* simulate_portfolio from the aggregation loop on
AfterAggregation(p, portfolio, normalized_weights, asset_results, corr, agg) ==
    IF agg.raised
    THEN [result |-> FailedPortfolio(agg.msg), rng |-> corr.rng,
          correlated |-> corr.correlated, fallback |-> corr.fallback]
    ELSE AfterPortfolioRisk(portfolio, normalized_weights, asset_results, corr,
            agg.value, PortfolioRisk(agg.value.returns, p.confidence_levels))

\* simulate_portfolio from the correlated returns on
AfterCorrelation(p, portfolio, normalized_weights, asset_results, corr) ==
    IF corr.out.raised
    THEN [result |-> FailedPortfolio(corr.out.msg), rng |-> corr.rng,
          correlated |-> FALSE, fallback |-> FALSE]
    ELSE AfterAggregation(p, portfolio, normalized_weights, asset_results, corr,
            Aggregate(p, portfolio, normalized_weights, corr.out.value))

\* correlated_returns: through the correlation matrix when the portfolio has
\* one and more than one asset, else the assets' own series
CorrelatedReturns(p, portfolio, sims) ==
    IF Len(portfolio.assets) > 1 /\ portfolio.correlation_matrix # None
    THEN GenerateCorrelatedReturns(p, sims.rng, sims.results,
                                   portfolio.correlation_matrix)
    ELSE [out |-> Ok([i \in DOMAIN sims.results |->
                        sims.results[i].simulated_returns]),
          rng |-> sims.rng, correlated |-> FALSE, fallback |-> FALSE]

\* simulate_portfolio from the simulation of the assets on
AfterAssets(p, portfolio, normalized_weights, sims) ==
    AfterCorrelation(p, portfolio, normalized_weights, sims.results,
                     CorrelatedReturns(p, portfolio, sims))

\* MonteCarloEngine.simulate_portfolio: the result, the generator after the
\* call, and whether the correlation matrix was applied
SimulatePortfolio(p, g, portfolio) ==
    AfterAssets(p, portfolio, NormalizedWeights(portfolio.weights),
                SimulateAssets(p, g, portfolio.assets, 1, <<>>))

\* ------------------------------------------------------------------------
\* The three risk calculators on one sample
\* ------------------------------------------------------------------------
Vals == {RInt(v) : v \in -MaxVal..MaxVal}

SeqsUpTo(S, n) == UNION {[1..k -> S] : k \in 0..n}

\* The regression sample of the specification's section 8
Fixture == <<Rat(-5, 100), Rat(-3, 100), Rat(-1, 100), RInt(0),
             Rat(2, 100), Rat(4, 100), Rat(6, 100), Rat(8, 100)>>

Samples == SeqsUpTo(Vals, MaxLen) \cup {Fixture}

\* Confidence levels: inside (0,1), on its border and outside it
Confs == {Rat(1, 4), Rat(1, 2), Rat(3, 4), Rat(19, 20), Rat(99, 100),
          RInt(0), RInt(1), Rat(3, 2)}

InUnit(c) == RLt(RInt(0), c) /\ RLt(c, RInt(1))

Impls == {"engine", "calculator", "var_historical", "cvar_calculation"}

Unset == [set |-> FALSE]
Set(out) == [set |-> TRUE, out |-> out]

NoCall == [op |-> "none"]
NoRet == [op |-> "none"]

EngineIdle ==
    /\ parameters = [num_simulations |-> 0]
    /\ rng = [seed |-> 0, pos |-> 0]

OptIdle ==
    /\ optParameters = [method |-> "none"]
    /\ assets = <<>>
    /\ expected_returns = None
    /\ covariance_matrix = None

RiskIdle ==
    /\ sample = <<>>
    /\ conf = RInt(0)
    /\ riskOut = [i \in Impls |-> Unset]
    /\ np_random = [seed |-> 0, pos |-> 0]

InitRisk ==
    /\ sample \in Samples
    /\ conf \in Confs
    /\ riskOut = [i \in Impls |-> Unset]
    /\ np_random = [seed |-> 0, pos |-> 0]
    /\ EngineIdle
    /\ OptIdle
    /\ call = NoCall
    /\ ret = NoRet
    /\ exc = NoExc

\* MonteCarloEngine._calculate_var and _calculate_cvar on the sample (a
\* simulated series is never empty: num_simulations >= 1)
EngineRisk ==
    /\ ~riskOut["engine"].set
    /\ Len(sample) > 0
    /\ LET v == EngineVar(sample, conf)
           cv == EngineCvar(sample, conf)
       IN  riskOut' = [riskOut EXCEPT !["engine"] =
               Set(IF v.raised THEN v
                   ELSE Ok([var |-> v.value, cvar |-> cv.value,
                            tail |-> Len(MaskLeq(sample, RNeg(v.value)))]))]
    /\ UNCHANGED <<sample, conf, np_random, engineVars, optVars, callVars>>

\* MonteCarloVaRCalculator._calculate_var_cvar on the sample
CalculatorRisk ==
    /\ ~riskOut["calculator"].set
    /\ riskOut' = [riskOut EXCEPT !["calculator"] = Set(CalcVarCvar(sample, conf))]
    /\ UNCHANGED <<sample, conf, np_random, engineVars, optVars, callVars>>

\* The registry's var_historical model on the sample
VarHistoricalRisk ==
    /\ ~riskOut["var_historical"].set
    /\ riskOut' = [riskOut EXCEPT !["var_historical"] =
                       Set(VarHistorical(sample, conf))]
    /\ UNCHANGED <<sample, conf, np_random, engineVars, optVars, callVars>>

\* The registry's cvar_calculation model on the sample
CvarCalculationRisk ==
    /\ ~riskOut["cvar_calculation"].set
    /\ riskOut' = [riskOut EXCEPT !["cvar_calculation"] =
                       Set(CvarCalculation(sample, conf))]
    /\ UNCHANGED <<sample, conf, np_random, engineVars, optVars, callVars>>

NextRisk ==
    \/ EngineRisk
    \/ CalculatorRisk
    \/ VarHistoricalRisk
    \/ CvarCalculationRisk

SpecRisk == InitRisk /\ [][NextRisk]_vars

\* ------------------------------------------------------------------------
\* The engine and its callers
\* ------------------------------------------------------------------------
MaxSims == 3
Seeds == {0, 1}

EngineParameters ==
    [num_simulations : 2..MaxSims,
     time_horizon : {1},
     confidence_levels : {<<Rat(95, 100), Rat(99, 100)>>, <<Rat(3, 4)>>,
                          <<Rat(1, 2), Rat(3, 2)>>, <<>>, <<RInt(1)>>},
     distribution_type : {"normal", "t_student", "copula", "custom"}]

Asset(symbol, price, er, vol, hist) ==
    [symbol |-> symbol, initial_price |-> price, expected_return |-> er,
     volatility |-> vol, historical_returns |-> hist, weight |-> RInt(1)]

\* Assets without history, with a history (three returns of mean 0 and
\* standard deviation 2), with a null among the returns, without a price
PlainAsset == Asset("PLAIN", RInt(100), RInt(1), RInt(1), <<>>)
FlatAsset == Asset("FLAT", RInt(100), RInt(1), RInt(0), <<>>)
NegVolAsset == Asset("NEGVOL", RInt(100), RInt(0), RInt(-1), <<>>)
HistAsset == Asset("HIST", RInt(100), RInt(1), RInt(1),
                   <<RInt(-2), RInt(0), RInt(2)>>)
HistOtherAsset == Asset("HIST2", RInt(100), RInt(-1), RInt(3),
                        <<RInt(-2), RInt(0), RInt(2)>>)
NullHistAsset == Asset("NULLHIST", RInt(100), RInt(0), RInt(1), <<None, RInt(1)>>)
NoPriceAsset == Asset("NOPRICE", None, RInt(0), RInt(1), <<>>)

EngineAssets == {PlainAsset, FlatAsset, NegVolAsset, HistAsset,
                 HistOtherAsset, NullHistAsset,
                 NoPriceAsset}

\* Stress scenarios: name -> parameters, in the order of the mapping
Scenario(name, params) == [name |-> name, params |-> params]
ScenarioLists ==
    {<<Scenario("base", [return_multiplier |-> RInt(1),
                         volatility_multiplier |-> RInt(1)])>>,
     <<Scenario("crash", [return_multiplier |-> RInt(-2),
                          volatility_multiplier |-> RInt(2)]),
       Scenario("calm", [volatility_multiplier |-> Rat(1, 2)])>>,
     <<Scenario("crash", [return_multiplier |-> RInt(-2),
                          volatility_multiplier |-> RInt(-1)])>>,
     <<Scenario("base", [return_multiplier |-> RInt(1)]),
       Scenario("null", [return_multiplier |-> None])>>,
     <<Scenario("bare", None)>>}

\* Correlation matrices of two assets: the identity, correlation 3/5, and
\* two that have no Cholesky factor (correlation 1 and correlation 3/2)
Corr(r) == <<(<<RInt(1), r>>), (<<r, RInt(1)>>)>>
CorrelationMatrices == {Corr(RInt(0)), Corr(Rat(3, 5)), Corr(RInt(1)), Corr(Rat(3, 2))}

PortfolioAssets == {PlainAsset, FlatAsset, NegVolAsset, NoPriceAsset}
WeightLists == {<<RInt(1), RInt(1)>>, <<RInt(1), RInt(3)>>,
                <<RInt(2), RInt(2), RInt(4)>>, <<RInt(1)>>}

Portfolios ==
    [assets : [1..2 -> PortfolioAssets], weights : WeightLists,
     correlation_matrix : CorrelationMatrices]
    \cup [assets : [1..1 -> PortfolioAssets], weights : {<<RInt(1)>>},
          correlation_matrix : {None}]

InitEngine ==
    /\ parameters \in EngineParameters
    /\ rng \in [seed : Seeds, pos : {0}]
    /\ RiskIdle
    /\ OptIdle
    /\ call = NoCall
    /\ ret = NoRet
    /\ exc = NoExc

\* An engine serves one call: run_monte_carlo_simulation and
\* run_portfolio_monte_carlo_simulation construct an engine for each request.

\* engine.simulate_single_asset(asset)
SimulateSingleAssetCall ==
    /\ call = NoCall
    /\ \E asset \in EngineAssets :
        \E sim \in {SimulateSingleAsset(parameters, rng, asset)} :
            /\ call' = [op |-> "simulate_single_asset", asset |-> asset,
                        step |-> sim.step, caught |-> sim.caught]
            /\ ret' = sim.result
            /\ rng' = sim.rng
            /\ exc' = NoExc
    /\ UNCHANGED <<parameters, riskVars, optVars>>

\* engine.simulate_portfolio(portfolio)
SimulatePortfolioCall ==
    /\ call = NoCall
    /\ \E portfolio \in Portfolios :
        \E sim \in {SimulatePortfolio(parameters, rng, portfolio)} :
            /\ call' = [op |-> "simulate_portfolio", portfolio |-> portfolio,
                        correlated |-> sim.correlated,
                        fallback |-> sim.fallback]
            /\ ret' = sim.result
            /\ rng' = sim.rng
            /\ exc' = NoExc
    /\ UNCHANGED <<parameters, riskVars, optVars>>

\* engine.perform_stress_test(asset, stress_scenarios): nothing catches what
\* the loop raises
PerformStressTestCall ==
    /\ call = NoCall
    /\ \E asset \in EngineAssets, scenarios \in ScenarioLists :
        \E run \in {PerformStressTest(parameters, rng, asset, scenarios, 1, <<>>)} :
            /\ call' = [op |-> "perform_stress_test", asset |-> asset,
                        scenarios |-> scenarios]
            /\ ret' = IF run.out.raised THEN NoRet ELSE run.out.value
            /\ exc' = IF run.out.raised THEN run.out ELSE NoExc
            /\ rng' = run.rng
    /\ UNCHANGED <<parameters, riskVars, optVars>>

NextEngine ==
    \/ SimulateSingleAssetCall
    \/ SimulatePortfolioCall
    \/ PerformStressTestCall

SpecEngine == InitEngine /\ [][NextEngine]_vars

\* ------------------------------------------------------------------------
\* PortfolioOptimizer
\* ------------------------------------------------------------------------
\* np.dot of two vectors, and of a matrix and a vector
Dot(a, b) == RSum([i \in DOMAIN a |-> RMul(a[i], b[i])])
MatVec(m, w) == [i \in DOMAIN m |-> Dot(m[i], w)]

\* A row less its mean m
CenteredBy(row, m) == [t \in DOMAIN row |-> RSub(row[t], m)]

\* np.cov of centered rows of one length: sums of products over T - 1
CovOfCentered(c) ==
    [i \in DOMAIN c |-> [j \in DOMAIN c |->
        RDiv(Dot(c[i], c[j]), RInt(Len(c[1]) - 1))]]

\* np.cov(returns_matrix)
NpCov(rows) ==
    CovOfCentered([i \in DOMAIN rows |-> CenteredBy(rows[i], RMean(rows[i]))])

\* np.outer(volatilities, volatilities) * 0.3
VolatilityCovariance(assets_) ==
    [i \in DOMAIN assets_ |-> [j \in DOMAIN assets_ |->
        RMul(RMul(assets_[i].volatility, assets_[j].volatility), Rat(3, 10))]]

\* np.array([asset.expected_return for asset in self.assets])
ExpectedReturns(assets_) == [i \in DOMAIN assets_ |-> assets_[i].expected_return]

\* np.array of the histories: ValueError when they differ in length
ReturnsMatrix(assets_) ==
    IF \E i, j \in DOMAIN assets_ :
          Len(assets_[i].historical_returns) # Len(assets_[j].historical_returns)
    THEN Raise("ValueError", "setting an array element with a sequence. The requested array has an inhomogeneous shape")
    ELSE Ok([i \in DOMAIN assets_ |-> assets_[i].historical_returns])

\* The assignment of the covariance from the returns matrix: none when the
\* matrix raised
CovarianceFrom(assets_, cov, returns_matrix) ==
    IF returns_matrix.raised
    THEN [expected_returns |-> ExpectedReturns(assets_),
          covariance_matrix |-> cov, out |-> returns_matrix]
    ELSE [expected_returns |-> ExpectedReturns(assets_),
          covariance_matrix |-> NpCov(returns_matrix.value), out |-> NoExc]

\* PortfolioOptimizer._update_matrices: the two fields after the call, and the
\* exception that left it, if any
UpdateMatrices(assets_, er, cov) ==
    IF Len(assets_) < 2
    THEN [expected_returns |-> er, covariance_matrix |-> cov, out |-> NoExc]
    ELSE IF \A i \in DOMAIN assets_ : Len(assets_[i].historical_returns) > 0
    THEN CovarianceFrom(assets_, cov, ReturnsMatrix(assets_))
    ELSE [expected_returns |-> ExpectedReturns(assets_),
          covariance_matrix |-> VolatilityCovariance(assets_), out |-> NoExc]

\* The weights the solver is asked about lie on a grid of step 1 / GridDen
GridDen == 4
WeightGrid == {Rat(k, GridDen) : k \in 0..GridDen}

\* The constraint and the bounds every call of opt.minimize is given:
\* np.sum(w) - 1.0 = 0 and min_weight <= w[i] <= max_weight
Feasible(par, n) ==
    {w \in [1..n -> WeightGrid] :
        /\ RSum(w) = RInt(1)
        /\ \A i \in 1..n : RLeq(par.min_weight, w[i]) /\ RLeq(w[i], par.max_weight)}

\* The covariance matrix can be multiplied with n weights
Usable(cov, n) == cov # None /\ Len(cov) = n

\* opt.minimize(objective, x0, method='SLSQP', bounds, constraints) as the
\* solver methods use it: result.x if result.success else None, and None when
\* the objective raises. A successful result satisfies the constraints; which
\* feasible point it is, and whether the solver converges, is the solver's.
Minimize(par, n, cov) ==
    IF Usable(cov, n) THEN {None} \cup Feasible(par, n) ELSE {None}

\* PortfolioOptimizer._optimize_for_target_return: the same call with the
\* second constraint np.dot(w, expected_returns) - target_return = 0
OptimizeForTargetReturn(par, n, er, cov, target_return) ==
    IF Usable(cov, n)
    THEN {None} \cup {w \in Feasible(par, n) : Dot(w, er) = target_return}
    ELSE {None}

\* PortfolioOptimizer._equal_weight_optimization: np.ones(n) / n
EqualWeightOptimization(n) == [i \in 1..n |-> Rat(1, n)]

Methods == {"mean_variance", "minimum_variance", "maximum_sharpe",
            "equal_weight", "risk_parity", "black_litterman", "mean_cvar"}

\* The branch of optimize for the method: the weights it can get, and
\* whether it went through the solver
MethodWeights(par, n, cov) ==
    IF par.method = "equal_weight"
    THEN {[weights |-> EqualWeightOptimization(n), solver |-> FALSE]}
    ELSE {[weights |-> w, solver |-> TRUE] : w \in Minimize(par, n, cov)}

\* The OptimizationResult of the early returns and of the except branch
FailedOptimization(par, msg) ==
    [success |-> FALSE, optimal_weights |-> <<>>,
     expected_return |-> RInt(0), expected_volatility |-> RInt(0),
     sharpe_ratio |-> RInt(0), var |-> RInt(0), cvar |-> RInt(0),
     diversification_ratio |-> RInt(0), concentration_ratio |-> RInt(0),
     method |-> par.method, optimization_metadata |-> <<>>,
     error_message |-> msg]

\* portfolio_return / portfolio_volatility if portfolio_volatility > 0 else
\* 0.0, kept as the return r and the variance v under the root
SharpeRatio(portfolio_return, portfolio_variance) ==
    IF RLt(RInt(0), portfolio_variance)
    THEN [r |-> portfolio_return, v |-> portfolio_variance]
    ELSE [r |-> RInt(0), v |-> RInt(1)]

\* The OptimizationResult of an optimization that went through; the
\* simulated risk metrics and the ratio of roots are left unevaluated
OptimizationDone(par, weights, er, cov) ==
    [success |-> TRUE, optimal_weights |-> weights,
     expected_return |-> Dot(weights, er),
     expected_volatility |-> [sqrt |-> Dot(weights, MatVec(cov, weights))],
     sharpe_ratio |-> SharpeRatio(Dot(weights, er),
                                  Dot(weights, MatVec(cov, weights))),
     var |-> Unevaluated, cvar |-> Unevaluated,
     diversification_ratio |-> Unevaluated,
     concentration_ratio |-> Dot(weights, weights),
     method |-> par.method,
     optimization_metadata |->
        [method |-> par.method, num_assets |-> Len(weights),
         risk_aversion |-> RInt(1), constraints |-> <<>>,
         optimization_successful |-> TRUE],
     error_message |-> ""]

\* An optimize that reports a solver without weights by a result without a
\* message
OptimizeFromSilent(par, er, cov, weights) ==
    IF weights = None
    THEN FailedOptimization(par, "")
    ELSE IF cov = None
    THEN FailedOptimization(par, "unsupported operand type(s) for *: 'NoneType' and 'float'")
    ELSE IF Len(cov) # Len(weights)
    THEN FailedOptimization(par, "shapes not aligned")
    ELSE OptimizationDone(par, weights, er, cov)

\* PortfolioOptimizer.optimize from the weights of the method on
OptimizeFrom(par, er, cov, weights) ==
    IF weights = None
    THEN FailedOptimization(par, "Optimization failed to converge")
    ELSE IF cov = None
    THEN FailedOptimization(par, "unsupported operand type(s) for *: 'NoneType' and 'float'")
    ELSE IF Len(cov) # Len(weights)
    THEN FailedOptimization(par, "shapes not aligned")
    ELSE OptimizationDone(par, weights, er, cov)

\* np.linspace(lo, hi, num): ValueError for a negative num
Linspace(lo, hi, num) ==
    IF num < 0
    THEN Raise("ValueError", "Number of samples must be non-negative")
    ELSE Ok([k \in 1..num |->
                IF num = 1 THEN lo
                ELSE RAdd(lo, RMul(RInt(k - 1),
                                   RDiv(RSub(hi, lo), RInt(num - 1))))])

\* np.min and np.max of a non-empty vector
NpMin(v) == CHOOSE x \in Range(v) : \A y \in Range(v) : RLeq(x, y)
NpMax(v) == CHOOSE x \in Range(v) : \A y \in Range(v) : RLeq(y, x)

\* a < b for two Sharpe ratios r / sqrt(v), v > 0
SharpeLt(a, b) ==
    IF a.r.n < 0 /\ b.r.n >= 0 THEN TRUE
    ELSE IF a.r.n >= 0 /\ b.r.n < 0 THEN FALSE
    ELSE IF a.r.n >= 0
    THEN RLt(RMul(RMul(a.r, a.r), b.v), RMul(RMul(b.r, b.r), a.v))
    ELSE RLt(RMul(RMul(b.r, b.r), a.v), RMul(RMul(a.r, a.r), b.v))

\* The EfficientFrontierPoint of the weights
FrontierPoint(weights, er, cov) ==
    [expected_return |-> Dot(weights, er),
     expected_volatility |-> [sqrt |-> Dot(weights, MatVec(cov, weights))],
     sharpe_ratio |-> SharpeRatio(Dot(weights, er),
                                  Dot(weights, MatVec(cov, weights))),
     weights |-> weights]

\* A tracking that takes the point of the last target
MinVolPointLatest(point, tracked) == point

\* if portfolio_volatility < min_volatility: min_vol_point = point
MinVolPoint(point, tracked) ==
    IF tracked = None \/ RLt(point.expected_volatility.sqrt,
                             tracked.expected_volatility.sqrt)
    THEN point ELSE tracked

\* if sharpe_ratio > max_sharpe: max_sharpe_point = point
MaxSharpePoint(point, tracked) ==
    IF tracked = None \/ SharpeLt(tracked.sharpe_ratio, point.sharpe_ratio)
    THEN point ELSE tracked

\* if portfolio_return > max_return_point.expected_return (or -inf)
MaxReturnPoint(point, tracked) ==
    IF tracked = None \/ RLt(tracked.expected_return, point.expected_return)
    THEN point ELSE tracked

\* The frontier before the loop
NoPoints ==
    [points |-> <<>>, min_vol_point |-> None, max_sharpe_point |-> None,
     max_return_point |-> None]

\* One pass of the loop with the point of the target
Tracked(front, point) ==
    [points |-> Append(front.points, point),
     min_vol_point |-> MinVolPoint(point, front.min_vol_point),
     max_sharpe_point |-> MaxSharpePoint(point, front.max_sharpe_point),
     max_return_point |-> MaxReturnPoint(point, front.max_return_point)]

\* One pass of the loop: nothing is added when the weights are None
FrontierStep(front, weights, er, cov) ==
    IF weights = None THEN front
    ELSE Tracked(front, FrontierPoint(weights, er, cov))

\* The loop over the first k target returns: every frontier it can build
RECURSIVE FrontierLoop(_, _, _, _, _)
FrontierLoop(par, er, cov, target_returns, k) ==
    IF k = 0 THEN {NoPoints}
    ELSE {FrontierStep(front, weights, er, cov) :
            front \in FrontierLoop(par, er, cov, target_returns, k - 1),
            weights \in OptimizeForTargetReturn(par, Len(er), er, cov,
                                                target_returns[k])}

\* list.sort(key=lambda x: x.expected_return): stable insertion
RECURSIVE InsertByReturn(_, _)
InsertByReturn(sorted, point) ==
    IF sorted = <<>> THEN <<point>>
    ELSE IF RLt(point.expected_return, sorted[Len(sorted)].expected_return)
    THEN Append(InsertByReturn(SubSeq(sorted, 1, Len(sorted) - 1), point),
                sorted[Len(sorted)])
    ELSE Append(sorted, point)

RECURSIVE SortByReturn(_)
SortByReturn(points) ==
    IF points = <<>> THEN <<>>
    ELSE InsertByReturn(SortByReturn(SubSeq(points, 1, Len(points) - 1)),
                        points[Len(points)])

\* The EfficientFrontier of the early returns and of the except branch
FailedFrontier(msg) ==
    [points |-> <<>>, min_volatility_point |-> None, max_sharpe_point |-> None,
     max_return_point |-> None, success |-> FALSE, error_message |-> msg]

\* A frontier that reports success whatever the loop collected
FrontierResultUnchecked(front) ==
    [points |-> SortByReturn(front.points),
     min_volatility_point |-> front.min_vol_point,
     max_sharpe_point |-> front.max_sharpe_point,
     max_return_point |-> front.max_return_point,
     success |-> TRUE, error_message |-> ""]

\* The EfficientFrontier after the loop
FrontierResult(front) ==
    IF front.points = <<>>
    THEN FailedFrontier("Failed to generate any efficient frontier points")
    ELSE [points |-> SortByReturn(front.points),
          min_volatility_point |-> front.min_vol_point,
          max_sharpe_point |-> front.max_sharpe_point,
          max_return_point |-> front.max_return_point,
          success |-> TRUE, error_message |-> ""]

\* calculate_efficient_frontier from the target returns on
FrontierFrom(par, er, cov, target_returns) ==
    IF target_returns.raised THEN {FailedFrontier(target_returns.msg)}
    ELSE {FrontierResult(front) :
            front \in FrontierLoop(par, er, cov, target_returns.value,
                                   Len(target_returns.value))}

\* A frontier calculation that runs its loop on fewer than two assets and
\* gets no point
CalculateEfficientFrontierUnguarded(par, assets_, er, cov, num_points) ==
    IF Len(assets_) < 2
    THEN {FailedFrontier("Failed to generate any efficient frontier points")}
    ELSE FrontierFrom(par, er, cov, Linspace(NpMin(er), NpMax(er), num_points))

\* PortfolioOptimizer.calculate_efficient_frontier: every frontier it can
\* return
CalculateEfficientFrontier(par, assets_, er, cov, num_points) ==
    IF Len(assets_) < 2
    THEN {FailedFrontier("At least 2 assets required for efficient frontier")}
    ELSE FrontierFrom(par, er, cov, Linspace(NpMin(er), NpMax(er), num_points))

\* ------------------------------------------------------------------------
\* A PortfolioOptimizer under add_asset, add_assets, optimize and
\* calculate_efficient_frontier
\* ------------------------------------------------------------------------
MaxAssets == 2
MaxPoints == 3

\* min_weight and max_weight: the defaults, a cap below 1/3, and a floor
WeightBounds == {<<RInt(0), RInt(1)>>, <<RInt(0), Rat(3, 10)>>,
                 <<Rat(1, 4), Rat(3, 4)>>}

OptimizationParameters ==
    {[method |-> m, min_weight |-> b[1], max_weight |-> b[2]] :
        m \in Methods, b \in WeightBounds}

AssetData(symbol, er, vol, hist) ==
    [symbol |-> symbol, expected_return |-> er, volatility |-> vol,
     historical_returns |-> hist]

\* Assets without history, and with histories of two and of three returns
BondAsset == AssetData("BOND", RInt(1), RInt(1), <<>>)
ShortAsset == AssetData("SHORT", RInt(1), RInt(1), <<RInt(-1), RInt(1)>>)
OtherShortAsset == AssetData("OTHER", RInt(3), RInt(2), <<RInt(2), RInt(-1)>>)
LongAsset == AssetData("LONG", RInt(3), RInt(2), <<RInt(0), RInt(2), RInt(-2)>>)

OptimizerAssets == {BondAsset, ShortAsset, OtherShortAsset, LongAsset}

InitOpt ==
    /\ optParameters \in OptimizationParameters
    /\ assets = <<>>
    /\ expected_returns = None
    /\ covariance_matrix = None
    /\ RiskIdle
    /\ EngineIdle
    /\ call = NoCall
    /\ ret = NoRet
    /\ exc = NoExc

\* An optimizer is filled with assets and then serves one query, as
\* run_portfolio_optimization and run_efficient_frontier_calculation use it
Filling == call.op \in {"none", "add_asset", "add_assets"}

\* The fields after assets was assigned and _update_matrices was called
Updated(assets_, op) ==
    /\ assets' = assets_
    /\ \E u \in {UpdateMatrices(assets_, expected_returns, covariance_matrix)} :
        /\ expected_returns' = u.expected_returns
        /\ covariance_matrix' = u.covariance_matrix
        /\ exc' = u.out
    /\ call' = op
    /\ ret' = NoRet
    /\ UNCHANGED <<optParameters, riskVars, engineVars>>

\* optimizer.add_asset(asset): nothing catches what _update_matrices raises
AddAsset ==
    /\ Filling
    /\ Len(assets) < MaxAssets
    /\ \E asset \in OptimizerAssets :
        Updated(Append(assets, asset), [op |-> "add_asset", asset |-> asset])

\* optimizer.add_assets(assets)
AddAssets ==
    \E list \in [1..2 -> OptimizerAssets] \cup {<<>>} :
        /\ Filling
        /\ Len(assets) + Len(list) <= MaxAssets
        /\ Updated(assets \o list, [op |-> "add_assets", assets |-> list])

\* optimizer.optimize()
Optimize ==
    /\ Filling
    /\ \/ /\ Len(assets) < 2
          /\ call' = [op |-> "optimize", solver |-> FALSE]
          /\ ret' = FailedOptimization(optParameters,
                        "At least 2 assets required for optimization")
       \/ /\ Len(assets) >= 2
          /\ \E got \in MethodWeights(optParameters, Len(assets),
                                      covariance_matrix) :
                /\ call' = [op |-> "optimize", solver |-> got.solver,
                            converged |-> got.weights # None]
                /\ ret' = OptimizeFrom(optParameters, expected_returns,
                                       covariance_matrix, got.weights)
    /\ exc' = NoExc
    /\ UNCHANGED <<optVars, riskVars, engineVars>>

\* optimizer.calculate_efficient_frontier(num_points)
CalculateEfficientFrontierCall ==
    /\ Filling
    /\ \E num_points \in -1..MaxPoints :
        \E frontier \in CalculateEfficientFrontier(optParameters, assets,
                            expected_returns, covariance_matrix, num_points) :
            /\ call' = [op |-> "calculate_efficient_frontier",
                        num_points |-> num_points]
            /\ ret' = frontier
    /\ exc' = NoExc
    /\ UNCHANGED <<optVars, riskVars, engineVars>>

NextOpt ==
    \/ AddAsset
    \/ AddAssets
    \/ Optimize
    \/ CalculateEfficientFrontierCall

SpecOpt == InitOpt /\ [][NextOpt]_vars

\* ------------------------------------------------------------------------
\* The command lines of monte_carlo_engine.py, monte_carlo_var.py and
\* portfolio_optimizer.py. argv is sys.argv without the name of the program.
\* ------------------------------------------------------------------------
\* json.loads of the texts of the model: a list, a list with a null, two
\* mappings; any other text is no JSON
JsonLoads(text) ==
    IF text = "[-2, 0, 2]" THEN Ok([list |-> <<RInt(-2), RInt(0), RInt(2)>>])
    ELSE IF text = "[1, null]" THEN Ok([list |-> <<RInt(1), None>>])
    ELSE IF text = "{\"method\": \"equal_weight\"}"
    THEN Ok([dict |-> [method |-> "equal_weight"]])
    ELSE IF text = "{\"method\": \"fastest\"}"
    THEN Ok([dict |-> [method |-> "fastest"]])
    ELSE Raise("JSONDecodeError", "Expecting value: line 1 column 1 (char 0)")

\* int(text) of the texts of the model
ParseInt(text) ==
    IF text = "2" THEN Ok(2)
    ELSE IF text = "3" THEN Ok(3)
    ELSE Raise("ValueError", "invalid literal for int() with base 10")

\* The defaults of the optional arguments
DefaultSimulations == 10000
DefaultPoints == 50

\* What a program did: the objects it printed as JSON, and the exception
\* that ended it, if any
Printed(object) == [stdout |-> <<object>>, exc |-> NoExc]
Crashed(exception) == [stdout |-> <<>>, exc |-> exception]

\* The values of the engine's and of the calculator's DistributionType
EngineDistributionTypes ==
    {"normal", "t_student", "garch", "copula", "mixture", "custom"}
CalculatorDistributionTypes ==
    {"normal", "t_student", "skewed_t", "garch", "copula"}

\* The error object of the engine's command line and of its runner
EngineErrorObject(msg) ==
    [success |-> FALSE, error |-> msg, var_95 |-> RInt(0), var_99 |-> RInt(0),
     cvar_95 |-> RInt(0), cvar_99 |-> RInt(0)]

\* run_monte_carlo_simulation: the dicts it can return. It catches whatever
\* is raised; success is what simulate_single_asset decided.
RunMonteCarloSimulation(symbol, returns_data, distribution_type, num_simulations) ==
    IF distribution_type \notin EngineDistributionTypes
    THEN {EngineErrorObject("not a valid DistributionType")}
    ELSE {[success |-> ok, symbol |-> symbol,
           num_simulations |-> num_simulations] : ok \in BOOLEAN}

\* The try block of the engine's command line
EngineMainTry(argv, num_simulations, returns_data) ==
    IF returns_data.raised
    THEN {Printed(EngineErrorObject(returns_data.msg))}
    ELSE {Printed(result) :
            result \in RunMonteCarloSimulation(argv[1], returns_data.value,
                          IF Len(argv) > 2 THEN argv[3] ELSE "normal",
                          num_simulations)}

\* The engine's command line from int(sys.argv[4]) on, which is outside the
\* try block
EngineMainCount(argv, num_simulations) ==
    IF num_simulations.raised THEN {Crashed(num_simulations)}
    ELSE EngineMainTry(argv, num_simulations.value, JsonLoads(argv[2]))

\* monte_carlo_engine.py __main__ with arguments: sys.argv[2] is read
\* outside the try block
EngineMain(argv) ==
    IF Len(argv) < 2
    THEN {Crashed(Raise("IndexError", "list index out of range"))}
    ELSE EngineMainCount(argv, IF Len(argv) > 3 THEN ParseInt(argv[4])
                               ELSE Ok(DefaultSimulations))

\* The error object of the two other command lines
ErrorObject(prefix, msg) == [error |-> <<prefix, msg>>]

\* The except clauses of main for an exception of the try block
Handled(exception, data_name) ==
    IF exception.type = "JSONDecodeError"
    THEN Printed(ErrorObject("Invalid JSON format for ", data_name))
    ELSE IF exception.type = "ValueError"
    THEN Printed(ErrorObject("Invalid parameter: ", exception.msg))
    ELSE Printed(ErrorObject("Unexpected error: ", exception.msg))

\* calculate_var_cvar_monte_carlo(returns_array, ...) of monte_carlo_var.py:
\* the result, or one of the exceptions it lets through
CalculateVarCvarMonteCarlo(returns_data, distribution, num_simulations) ==
    IF distribution \notin CalculatorDistributionTypes
    THEN {Raise("ValueError", "not a valid DistributionType")}
    ELSE {Ok([success |-> TRUE, method |-> "Monte Carlo",
              num_simulations |-> num_simulations]),
          Raise("ValueError", "raised by the simulation"),
          Raise("TypeError", "raised by the simulation")}

\* What main prints for the outcome of the calculation
CalculatorOutput(outcome) ==
    IF outcome.raised THEN Handled(outcome, "returns data")
    ELSE Printed(outcome.value)

\* The try block of the calculator's command line
CalculatorMainTry(argv, num_simulations, returns_data) ==
    IF num_simulations.raised THEN {Handled(num_simulations, "returns data")}
    ELSE IF returns_data.raised THEN {Handled(returns_data, "returns data")}
    ELSE {CalculatorOutput(outcome) :
            outcome \in CalculateVarCvarMonteCarlo(returns_data.value,
                            IF Len(argv) > 2 THEN argv[3] ELSE "normal",
                            num_simulations.value)}

\* monte_carlo_var.py main
CalculatorMain(argv) ==
    IF Len(argv) < 2
    THEN {Printed(ErrorObject("Insufficient arguments. ", "Usage"))}
    ELSE CalculatorMainTry(argv,
            IF Len(argv) > 3 THEN ParseInt(argv[4]) ELSE Ok(DefaultSimulations),
            JsonLoads(argv[2]))

\* The values of OptimizationMethod are Methods.
\* run_portfolio_optimization: the dicts it can return; its except branch
\* reads optimization_data.get again and raises when the data is no mapping
RunPortfolioOptimization(optimization_data) ==
    IF "dict" \notin DOMAIN optimization_data
    THEN {Raise("AttributeError", "'list' object has no attribute 'get'")}
    ELSE IF Get(optimization_data.dict, "method", "mean_variance") \notin Methods
    THEN {Ok([success |-> FALSE, error |-> "not a valid OptimizationMethod"])}
    ELSE {Ok([success |-> ok,
              method |-> Get(optimization_data.dict, "method", "mean_variance")]) :
            ok \in BOOLEAN}

\* run_efficient_frontier_calculation: its except branch returns the dict
RunEfficientFrontierCalculation(optimization_data, num_points) ==
    IF "dict" \notin DOMAIN optimization_data
    THEN {Ok([success |-> FALSE,
              error |-> "'list' object has no attribute 'get'"])}
    ELSE IF Get(optimization_data.dict, "method", "mean_variance") \notin Methods
    THEN {Ok([success |-> FALSE, error |-> "not a valid OptimizationMethod"])}
    ELSE {Ok([success |-> ok, num_points |-> num_points]) : ok \in BOOLEAN}

\* What main prints for the outcome of a runner
OptimizerOutput(outcome) ==
    IF outcome.raised THEN Handled(outcome, "optimization data")
    ELSE Printed(outcome.value)

\* The try block of the optimizer's command line
OptimizerMainTry(argv, num_points, optimization_data) ==
    IF num_points.raised THEN {Handled(num_points, "optimization data")}
    ELSE IF optimization_data.raised
    THEN {Handled(optimization_data, "optimization data")}
    ELSE IF argv[1] = "optimize"
    THEN {OptimizerOutput(outcome) :
            outcome \in RunPortfolioOptimization(optimization_data.value)}
    ELSE IF argv[1] = "frontier"
    THEN {OptimizerOutput(outcome) :
            outcome \in RunEfficientFrontierCalculation(optimization_data.value,
                                                        num_points.value)}
    ELSE {Printed(ErrorObject("Unknown command: ", argv[1]))}

\* portfolio_optimizer.py main
OptimizerMain(argv) ==
    IF Len(argv) < 2
    THEN {Printed(ErrorObject("Insufficient arguments. ", "Usage"))}
    ELSE OptimizerMainTry(argv,
            IF Len(argv) > 2 THEN ParseInt(argv[3]) ELSE Ok(DefaultPoints),
            JsonLoads(argv[2]))

\* ------------------------------------------------------------------------
\* The three programs, each run once with arguments
\* ------------------------------------------------------------------------
ReturnsTexts == {"[-2, 0, 2]", "[1, null]", "[-2, 0"}
DataTexts == {"{\"method\": \"equal_weight\"}", "{\"method\": \"fastest\"}",
              "[-2, 0, 2]", "{\"method\": "}
CountTexts == {"2", "3", "many"}

\* symbol, returns_json, distribution_type, num_simulations
SimulationArgvs ==
    {<<"AAPL">>}
    \cup {<<"AAPL", r>> : r \in ReturnsTexts}
    \cup {<<"AAPL", r, d>> : r \in ReturnsTexts, d \in {"normal", "uniform"}}
    \cup {<<"AAPL", r, d, n>> :
            r \in ReturnsTexts, d \in {"normal", "uniform"}, n \in CountTexts}

\* command, data_json, num_points
OptimizerArgvs ==
    {<<c>> : c \in {"optimize", "frontier", "status"}}
    \cup {<<c, t>> : c \in {"optimize", "frontier", "status"}, t \in DataTexts}
    \cup {<<c, t, n>> : c \in {"optimize", "frontier", "status"},
                        t \in DataTexts, n \in CountTexts}

InitCli ==
    /\ RiskIdle
    /\ EngineIdle
    /\ OptIdle
    /\ call = NoCall
    /\ ret = NoRet
    /\ exc = NoExc

\* The run of a program: what it wrote, and the exception that ended it
Ran(program, argv, run) ==
    /\ call' = [op |-> "main", program |-> program, argv |-> argv]
    /\ ret' = [stdout |-> run.stdout]
    /\ exc' = run.exc
    /\ UNCHANGED <<riskVars, engineVars, optVars>>

\* python monte_carlo_engine.py argv
EngineMainCall ==
    /\ call = NoCall
    /\ \E argv \in SimulationArgvs : \E run \in EngineMain(argv) :
        Ran("monte_carlo_engine.py", argv, run)

\* python monte_carlo_var.py argv
CalculatorMainCall ==
    /\ call = NoCall
    /\ \E argv \in SimulationArgvs : \E run \in CalculatorMain(argv) :
        Ran("monte_carlo_var.py", argv, run)

\* python portfolio_optimizer.py argv
OptimizerMainCall ==
    /\ call = NoCall
    /\ \E argv \in OptimizerArgvs : \E run \in OptimizerMain(argv) :
        Ran("portfolio_optimizer.py", argv, run)

NextCli ==
    \/ EngineMainCall
    \/ CalculatorMainCall
    \/ OptimizerMainCall

SpecCli == InitCli /\ [][NextCli]_vars

\* ------------------------------------------------------------------------
\* quant_models: the registry and execute_model
\* ------------------------------------------------------------------------
\* QuantModelRegistry._register_default_models: the names in model_registry
RegisteredModels ==
    {"var_historical", "var_parametric", "var_monte_carlo", "cvar_calculation",
     "stress_test", "markowitz_optimization", "black_litterman", "risk_parity",
     "efficient_frontier", "garch_model", "copula_model", "regime_switching",
     "black_scholes", "monte_carlo_pricing", "binomial_tree"}

\* model_function(parameters, input_data, options) of the two models of the
\* risk calculators
ModelFunction(model_name, parameters_, input_data) ==
    IF model_name = "var_historical"
    THEN VarHistorical(Get(input_data, "returns", <<>>),
                       Get(parameters_, "confidence_level", Rat(95, 100)))
    ELSE CvarCalculation(Get(input_data, "returns", <<>>),
                         Get(parameters_, "confidence_level", Rat(95, 100)))

\* The dict of the two failure returns of execute_model
ModelFailure(model_name, msg) ==
    [success |-> FALSE, error |-> msg, model_name |-> model_name,
     execution_time |-> "elapsed"]

\* execute_model after the call of the model function
ModelExecuted(model_name, result) ==
    IF result.raised THEN Ok(ModelFailure(model_name, result.msg))
    ELSE Ok([success |-> TRUE, model_name |-> model_name,
             results |-> result.value, execution_time |-> "elapsed",
             warnings |-> <<>>])

\* execute_model after model_name was read
ExecuteNamed(request, model_name) ==
    IF model_name \notin RegisteredModels
    THEN Ok(ModelFailure(model_name, "Model not found"))
    ELSE ModelExecuted(model_name,
            ModelFunction(model_name, Get(request, "parameters", <<>>),
                          Get(request, "input_data", <<>>)))

\* A request is a mapping, or None, or a list
IsMapping(request) == request # None /\ "list" \notin DOMAIN request

\* execute_model(request): request.get raises on a request that is no
\* mapping, and the except branch then reads model_name, which is unbound
ExecuteModel(request) ==
    IF ~IsMapping(request)
    THEN Raise("UnboundLocalError",
               "local variable 'model_name' referenced before assignment")
    ELSE ExecuteNamed(request, Get(request, "model_name", ""))

\* Requests: with and without a model name, for the two risk models and an
\* unknown one, at a level inside and outside [0,1]; and two non-mappings
RequestSamples == SeqsUpTo(Vals, 2)
Requests ==
    {[model_name |-> m, parameters |-> [confidence_level |-> c],
      input_data |-> [returns |-> s]] :
        m \in {"var_historical", "cvar_calculation", "var_quantum"},
        c \in {Rat(95, 100), Rat(3, 2)}, s \in RequestSamples}
    \cup {[input_data |-> [returns |-> s]] : s \in RequestSamples}
    \cup {[model_name |-> "var_historical", input_data |-> [returns |-> s]] :
            s \in RequestSamples}
    \cup {None, [list |-> <<>>]}

InitRegistry ==
    /\ RiskIdle
    /\ EngineIdle
    /\ OptIdle
    /\ call = NoCall
    /\ ret = NoRet
    /\ exc = NoExc

\* execute_model(request)
ExecuteModelCall ==
    /\ \E request \in Requests : \E run \in {ExecuteModel(request)} :
        /\ call' = [op |-> "execute_model", request |-> request]
        /\ ret' = IF run.raised THEN NoRet ELSE run.value
        /\ exc' = IF run.raised THEN run ELSE NoExc
    /\ UNCHANGED <<riskVars, engineVars, optVars>>

NextRegistry == ExecuteModelCall

SpecRegistry == InitRegistry /\ [][NextRegistry]_vars

\* ------------------------------------------------------------------------
\* PortfolioParameters: the correlation matrix derived at construction
\* ------------------------------------------------------------------------
\* min(len(asset.historical_returns) for asset in self.assets
\*     if asset.historical_returns): ValueError when no asset has a history
MinLength(assets_) ==
    IF \A i \in DOMAIN assets_ : assets_[i].historical_returns = <<>>
    THEN Raise("ValueError", "min() arg is an empty sequence")
    ELSE Ok(CHOOSE k \in 1..MaxLen :
              /\ \E i \in DOMAIN assets_ : Len(assets_[i].historical_returns) = k
              /\ \A i \in DOMAIN assets_ :
                    assets_[i].historical_returns = <<>>
                    \/ Len(assets_[i].historical_returns) >= k)

\* returns_matrix: the first min_length returns of every asset that has a
\* history
TruncatedHistories(assets_, min_length) ==
    [i \in DOMAIN SelectSeq(assets_, LAMBDA a : a.historical_returns # <<>>) |->
        SubSeq(SelectSeq(assets_, LAMBDA a : a.historical_returns # <<>>)[i]
                   .historical_returns, 1, min_length)]

\* pd.DataFrame(returns_matrix).T.corr().values: one row and column per row
\* of returns_matrix; the coefficient is cov / sqrt(under)
PearsonCorr(rows) ==
    [i \in DOMAIN rows |-> [j \in DOMAIN rows |->
        [cov |-> Dot(CenteredBy(rows[i], RMean(rows[i])),
                     CenteredBy(rows[j], RMean(rows[j]))),
         under |-> RMul(Dot(CenteredBy(rows[i], RMean(rows[i])),
                            CenteredBy(rows[i], RMean(rows[i]))),
                        Dot(CenteredBy(rows[j], RMean(rows[j])),
                            CenteredBy(rows[j], RMean(rows[j]))))]]]

\* np.eye(n)
Eye(n) == [i \in 1..n |-> [j \in 1..n |-> IF i = j THEN RInt(1) ELSE RInt(0)]]

\* _calculate_correlation_matrix from returns_matrix on
CorrelationOf(assets_, returns_matrix) ==
    IF Len(returns_matrix) < 2 THEN Ok(Eye(Len(assets_)))
    ELSE Ok(PearsonCorr(returns_matrix))

\* PortfolioParameters._calculate_correlation_matrix
CalculateCorrelationMatrix(assets_, min_length) ==
    IF min_length.raised THEN min_length
    ELSE CorrelationOf(assets_, TruncatedHistories(assets_, min_length.value))

\* PortfolioParameters.__post_init__: the correlation_matrix field after it,
\* or the exception that left the constructor
PortfolioPostInit(assets_, correlation_matrix) ==
    IF correlation_matrix = None /\ Len(assets_) > 1
    THEN CalculateCorrelationMatrix(assets_, MinLength(assets_))
    ELSE Ok(correlation_matrix)

\* Histories of none, two and three returns
Histories ==
    {<<>>, <<RInt(-1), RInt(1)>>, <<RInt(2), RInt(-1)>>,
     <<RInt(0), RInt(2), RInt(-2)>>, <<RInt(1), RInt(1), RInt(0)>>}

HistoryAssets == {Asset("A", RInt(100), RInt(0), RInt(1), h) : h \in Histories}

InitPortfolioParameters ==
    /\ RiskIdle
    /\ EngineIdle
    /\ OptIdle
    /\ call = NoCall
    /\ ret = NoRet
    /\ exc = NoExc

\* PortfolioParameters(assets, weights, correlation_matrix)
ConstructPortfolioParameters ==
    /\ call = NoCall
    /\ \E n \in 1..3 : \E assets_ \in [1..n -> HistoryAssets] :
        \E given \in BOOLEAN :
         \E correlation_matrix \in {IF given THEN Corr(RInt(0)) ELSE None} :
          \E made \in {PortfolioPostInit(assets_, correlation_matrix)} :
            /\ call' = [op |-> "PortfolioParameters", assets |-> assets_,
                        correlation_matrix |-> correlation_matrix]
            /\ ret' = IF made.raised THEN NoRet
                      ELSE [assets |-> assets_,
                            correlation_matrix |-> made.value]
            /\ exc' = IF made.raised THEN made ELSE NoExc
    /\ UNCHANGED <<riskVars, engineVars, optVars>>

NextPortfolioParameters == ConstructPortfolioParameters

SpecPortfolioParameters ==
    InitPortfolioParameters /\ [][NextPortfolioParameters]_vars

\* ---------------------------------------------------------------------
\* app.py: the HTTP service

\* The names monte_carlo_engine.py binds at module level
EngineModuleNames ==
    {"np", "pd", "stats", "minimize", "cholesky", "LinAlgError", "Dict",
     "List", "Tuple", "Optional", "Union", "Any", "json", "logging",
     "dataclass", "asdict", "Enum", "warnings", "logger",
     "DistributionType", "SimulationType", "SimulationParameters",
     "AssetParameters", "PortfolioParameters", "SimulationResult",
     "PortfolioSimulationResult", "MonteCarloEngine",
     "run_monte_carlo_simulation", "run_portfolio_monte_carlo_simulation"}

\* The attributes of a MonteCarloVaRCalculator that can be called
CalculatorMethods ==
    {"calculate_var_cvar_monte_carlo",
     "calculate_portfolio_var_cvar_monte_carlo"}

\* The parameters PortfolioOptimizer.__init__ requires besides self
OptimizerRequired == <<"parameters">>

\* The public methods of a PortfolioOptimizer
OptimizerMethods ==
    {"add_asset", "add_assets", "optimize", "calculate_efficient_frontier"}

\* The methods of a QuantModelRegistry
RegistryMethods ==
    {"register_model", "get_model", "list_models", "get_models_by_type"}

\* from module import name
ImportFrom(names, name) ==
    IF name \in names THEN NoExc
    ELSE Raise("ImportError", "cannot import name")

\* A call of a class with the positional arguments given
Instantiate(required, given) ==
    IF Len(given) < Len(required)
    THEN Raise("TypeError", "missing required positional argument")
    ELSE NoExc

\* object.name
GetAttr(methods, name) ==
    IF name \in methods THEN NoExc
    ELSE Raise("AttributeError", "object has no attribute")

\* request.get_json() and the data.get calls on its value
GetJson(body) ==
    IF body.json THEN NoExc
    ELSE Raise("BadRequest", "Failed to decode JSON object")

\* The except branch of a handler
Failure500(e) ==
    [status |-> 500, success |-> FALSE, error |-> e.msg, type |-> e.type,
     computed |-> FALSE]

\* The response once the computation has been called: jsonify of its result,
\* or the except branch when it raised
Computed(run) ==
    IF run.raised
    THEN [Failure500(run) EXCEPT !.computed = TRUE]
    ELSE [status |-> 200, success |-> TRUE, result |-> run.value,
          computed |-> TRUE]

\* The first exception of the steps of a handler, in order
FirstException(steps) ==
    IF \E i \in DOMAIN steps : steps[i].raised
    THEN steps[CHOOSE i \in DOMAIN steps :
                 /\ steps[i].raised
                 /\ \A j \in 1..(i - 1) : ~steps[j].raised]
    ELSE NoExc

\* A handler: its steps up to the call of the computation, then the call
Handle(steps, run) ==
    IF FirstException(steps).raised THEN Failure500(FirstException(steps))
    ELSE Computed(run)

\* POST /monte-carlo/var
monte_carlo_var(body) ==
    Handle(<<ImportFrom(EngineModuleNames, "MonteCarloVaRCalculator"),
             GetJson(body), Instantiate(<<>>, <<>>),
             GetAttr(CalculatorMethods, "calculate_var")>>,
           Ok(Unevaluated))

\* POST /portfolio/optimize
portfolio_optimize(body) ==
    Handle(<<GetJson(body), Instantiate(OptimizerRequired, <<>>),
             GetAttr(OptimizerMethods, "optimize_portfolio")>>,
           Ok(Unevaluated))

\* POST /quant-models/execute
execute_quant_model(body) ==
    Handle(<<GetJson(body), Instantiate(<<>>, <<>>),
             GetAttr(RegistryMethods, "execute_model")>>,
           Ok(Unevaluated))

\* The bodies posted: JSON objects, and one that is not JSON
VarBodies ==
    {[json |-> TRUE, returns |-> s, confidence_level |-> c] :
        s \in SeqsUpTo(Vals, 2), c \in {Rat(95, 100), Rat(99, 100)}}
    \cup {[json |-> FALSE]}

OptimizeBodies ==
    {[json |-> TRUE, assets |-> n, method |-> m, risk_aversion |-> a] :
        n \in 0..3, m \in Methods, a \in {RInt(1), RInt(2)}}
    \cup {[json |-> FALSE]}

ExecuteBodies ==
    {[json |-> TRUE, model_name |-> m, parameters |-> p] :
        m \in {"var_historical", "cvar_calculation", "unknown"},
        p \in {[returns |-> s] : s \in SeqsUpTo(Vals, 1)}}
    \cup {[json |-> FALSE]}

InitHttp ==
    /\ RiskIdle
    /\ EngineIdle
    /\ OptIdle
    /\ call = NoCall
    /\ ret = NoRet
    /\ exc = NoExc

\* One request answered by the handler of its route
PostMonteCarloVar ==
    /\ call = NoCall
    /\ \E body \in VarBodies :
        /\ call' = [op |-> "POST", path |-> "/monte-carlo/var",
                    body |-> body]
        /\ ret' = monte_carlo_var(body)
    /\ UNCHANGED <<riskVars, engineVars, optVars, exc>>

PostPortfolioOptimize ==
    /\ call = NoCall
    /\ \E body \in OptimizeBodies :
        /\ call' = [op |-> "POST", path |-> "/portfolio/optimize",
                    body |-> body]
        /\ ret' = portfolio_optimize(body)
    /\ UNCHANGED <<riskVars, engineVars, optVars, exc>>

PostExecuteQuantModel ==
    /\ call = NoCall
    /\ \E body \in ExecuteBodies :
        /\ call' = [op |-> "POST", path |-> "/quant-models/execute",
                    body |-> body]
        /\ ret' = execute_quant_model(body)
    /\ UNCHANGED <<riskVars, engineVars, optVars, exc>>

NextHttp ==
    \/ PostMonteCarloVar
    \/ PostPortfolioOptimize
    \/ PostExecuteQuantModel

SpecHttp == InitHttp /\ [][NextHttp]_vars

\* ---------------------------------------------------------------------
\* The generators of invocations that run beside one another

\* The number of variates an invocation draws
NumDraws == 2

\* A seed or random_seed argument that is not None
Seeded(s) == [none |-> FALSE, value |-> s]

SeedArguments == {None, Seeded(1), Seeded(2)}

\* The seeds a generator can take from the operating system's entropy
EntropySeeds == {0, 3}

\* MonteCarloVaRCalculator.__init__: np.random.seed(random_seed) on the
\* module-level generator g when random_seed is not None
NpRandomSeed(g, random_seed) ==
    IF random_seed # None THEN [seed |-> random_seed.value, pos |-> 0] ELSE g

\* MonteCarloEngine._setup_random_generator: np.random.default_rng(seed), or
\* np.random.default_rng() when the seed is None
SetupRandomGenerator(seed) ==
    IF seed # None THEN {[seed |-> seed.value, pos |-> 0]}
    ELSE {[seed |-> e, pos |-> 0] : e \in EntropySeeds}

\* The n standard normal variates generator g gives next, and g afterwards
Variates(g, n) == [draws |-> [k \in 1..n |-> StandardNormal(g.seed, g.pos + k)], rng |-> [g EXCEPT !.pos = @ + n]]

\* An invocation before its constructor has run
Invocations ==
    {[kind |-> k, seed |-> s, pc |-> "new", rng |-> None] :
        k \in {"engine", "calculator"}, s \in SeedArguments}
    \cup {[kind |-> "optimizer", seed |-> None, pc |-> "new", rng |-> None]}

Pending == [done |-> FALSE]

InitGenerators ==
    /\ sample = <<>>
    /\ conf = RInt(0)
    /\ riskOut = [i \in Impls |-> Unset]
    /\ np_random \in {[seed |-> e, pos |-> 0] : e \in EntropySeeds}
    /\ EngineIdle
    /\ OptIdle
    /\ call \in [1..2 -> Invocations]
    /\ ret = [i \in 1..2 |-> Pending]
    /\ exc = NoExc

\* MonteCarloEngine(parameters): the engine keeps a generator of its own
EngineConstruct(i) ==
    /\ call[i].kind = "engine" /\ call[i].pc = "new"
    /\ \E g \in SetupRandomGenerator(call[i].seed) :
         call' = [call EXCEPT ![i].pc = "constructed", ![i].rng = g]
    /\ UNCHANGED <<riskVars, engineVars, optVars, ret, exc>>

\* MonteCarloEngine._normal_distribution: self.rng.normal
EngineSimulate(i) ==
    /\ call[i].kind = "engine" /\ call[i].pc = "constructed"
    /\ \E got \in {Variates(call[i].rng, NumDraws)} :
        /\ ret' = [ret EXCEPT ![i] = [done |-> TRUE, draws |-> got.draws]]
        /\ call' = [call EXCEPT ![i].pc = "done", ![i].rng = got.rng]
    /\ UNCHANGED <<riskVars, engineVars, optVars, exc>>

\* MonteCarloVaRCalculator(random_seed)
CalculatorConstruct(i) ==
    /\ call[i].kind = "calculator" /\ call[i].pc = "new"
    /\ np_random' = NpRandomSeed(np_random, call[i].seed)
    /\ call' = [call EXCEPT ![i].pc = "constructed"]
    /\ UNCHANGED <<sample, conf, riskOut, engineVars, optVars, ret, exc>>

\* MonteCarloVaRCalculator._simulate_normal: np.random.normal
CalculatorSimulate(i) ==
    /\ call[i].kind = "calculator" /\ call[i].pc = "constructed"
    /\ \E got \in {Variates(np_random, NumDraws)} :
        /\ ret' = [ret EXCEPT ![i] = [done |-> TRUE, draws |-> got.draws]]
        /\ np_random' = got.rng
    /\ call' = [call EXCEPT ![i].pc = "done"]
    /\ UNCHANGED <<sample, conf, riskOut, engineVars, optVars, exc>>

\* PortfolioOptimizer._calculate_risk_metrics: np.random.multivariate_normal
OptimizerRiskMetrics(i) ==
    /\ call[i].kind = "optimizer" /\ call[i].pc = "new"
    /\ \E got \in {Variates(np_random, NumDraws)} :
        /\ ret' = [ret EXCEPT ![i] = [done |-> TRUE, draws |-> got.draws]]
        /\ np_random' = got.rng
    /\ call' = [call EXCEPT ![i].pc = "done"]
    /\ UNCHANGED <<sample, conf, riskOut, engineVars, optVars, exc>>

NextGenerators ==
    \E i \in 1..2 :
        \/ EngineConstruct(i)
        \/ EngineSimulate(i)
        \/ CalculatorConstruct(i)
        \/ CalculatorSimulate(i)
        \/ OptimizerRiskMetrics(i)

SpecGenerators == InitGenerators /\ [][NextGenerators]_vars

\* The value an implementation reported, when it returned one
Reported(i) == riskOut[i].set /\ ~riskOut[i].out.raised
VarOf(i) == riskOut[i].out.value.var
CvarOf(i) == riskOut[i].out.value.cvar
TailOf(i) == riskOut[i].out.value.tail

\* C5: on the same sample and for c in (0,1), the engine, the calculator and
\* the registry's var_historical all report the negative of the linearly
\* interpolated (1-c)-quantile, hence the same VaR.
C5_AllVarAgree ==
    (InUnit(conf) /\ Reported("engine") /\ Reported("calculator")
        /\ Reported("var_historical"))
    => (VarOf("engine") = VarOf("calculator")
        /\ VarOf("engine") = VarOf("var_historical"))

\* C6: for a non-empty sample and c in (0,1), each implementation whose CVaR
\* tail is non-empty reports CVaR(c) >= VaR(c).
C6_CvarAtLeastVar ==
    \A i \in {"engine", "calculator", "cvar_calculation"} :
        (InUnit(conf) /\ Len(sample) > 0 /\ Reported(i) /\ TailOf(i) > 0)
        => RLeq(VarOf(i), CvarOf(i))

\* C6 witness: all three have measured a sample with a non-empty tail, and
\* for the calculator the tail loss is strictly worse than the threshold.
C6_Witness ==
    /\ InUnit(conf)
    /\ \A i \in {"engine", "calculator", "cvar_calculation"} :
           Reported(i) /\ TailOf(i) > 0
    /\ RLt(VarOf("calculator"), CvarOf("calculator"))
    /\ RLt(VarOf("engine"), CvarOf("engine"))

\* C1: no exception ever reaches the caller of a public operation of the
\* engine: every call ends with a result and without a raised exception.
C1_NoExceptionEscapes == ~exc.raised

\* C2: when a step of simulate_single_asset raises, the call returns a
\* SimulationResult with success = false, the exception's message as its
\* error_message, empty returns, prices, VaR, CVaR and percentiles, every
\* scalar statistic 0, and no exception leaves the call.
C2_FailedSimulationShape ==
    (call.op = "simulate_single_asset" /\ call.caught.raised) =>
        /\ ~exc.raised
        /\ ret.success = FALSE
        /\ ret.error_message = call.caught.msg
        /\ ret.simulated_returns = <<>>
        /\ ret.simulated_prices = <<>>
        /\ ret.var_values = <<>>
        /\ ret.cvar_values = <<>>
        /\ ret.percentiles = <<>>
        /\ ret.expected_value = RInt(0)
        /\ ret.standard_deviation = RInt(0)
        /\ ret.skewness = RInt(0)
        /\ ret.kurtosis = RInt(0)

\* A simulation whose risk loop raised, after the three steps before it
C2_Witness ==
    /\ call.op = "simulate_single_asset"
    /\ call.caught.raised
    /\ call.step = "risk"
    /\ ret.success = FALSE

\* A flag in the metadata that tells a degraded run from a correlated one
DegradedFlag(metadata) ==
    \/ "degraded_mode" \in DOMAIN metadata /\ metadata.degraded_mode = TRUE
    \/ "correlation_used" \in DOMAIN metadata /\ metadata.correlation_used = FALSE

\* C7: a successful simulate_portfolio that fell back to the independent
\* series, because the correlation matrix has no Cholesky factor, carries a
\* degraded-mode flag in its metadata.
C7_FallbackFlagged ==
    (call.op = "simulate_portfolio" /\ call.fallback /\ ret.success) =>
        DegradedFlag(ret.simulation_metadata)

\* C3: for every method and every min_weight and max_weight, the weights of
\* a successful optimize() sum to 1 and each lies in [min_weight, max_weight].
C3_WeightsWithinBounds ==
    (call.op = "optimize" /\ ret.success) =>
        /\ RSum(ret.optimal_weights) = RInt(1)
        /\ \A i \in DOMAIN ret.optimal_weights :
              /\ RLeq(optParameters.min_weight, ret.optimal_weights[i])
              /\ RLeq(ret.optimal_weights[i], optParameters.max_weight)

\* C4: optimize() with method equal_weight on n >= 2 assets returns
\* success = true with every weight exactly 1/n, without a call of the
\* solver, whatever the state of the returns and the covariance.
C4_EqualWeightAlwaysSucceeds ==
    (/\ call.op = "optimize"
     /\ optParameters.method = "equal_weight"
     /\ Len(assets) >= 2) =>
        /\ ret.success
        /\ ret.optimal_weights = [i \in 1..Len(assets) |-> Rat(1, Len(assets))]
        /\ ~call.solver

\* C8: in a successful EfficientFrontier the three designated points are
\* members of points; no point has a volatility below the min-volatility
\* point's, a Sharpe ratio above the max-Sharpe point's, or a return above
\* the max-return point's.
C8_FrontierExtremes ==
    (call.op = "calculate_efficient_frontier" /\ ret.success) =>
        /\ ret.min_volatility_point \in Range(ret.points)
        /\ ret.max_sharpe_point \in Range(ret.points)
        /\ ret.max_return_point \in Range(ret.points)
        /\ \A pt \in Range(ret.points) :
              /\ RLeq(ret.min_volatility_point.expected_volatility.sqrt,
                      pt.expected_volatility.sqrt)
              /\ ~SharpeLt(ret.max_sharpe_point.sharpe_ratio, pt.sharpe_ratio)
              /\ RLeq(pt.expected_return, ret.max_return_point.expected_return)

\* A successful frontier of three points whose least volatile point is
\* neither its last nor its point of highest return
C8_Witness ==
    /\ call.op = "calculate_efficient_frontier"
    /\ ret.success
    /\ Len(ret.points) = 3
    /\ ret.min_volatility_point # ret.points[3]
    /\ ret.min_volatility_point # ret.max_return_point
    /\ ret.max_sharpe_point # ret.max_return_point

\* The arguments of a command line are short of one, or hold a text that is
\* no JSON or no integer
BadArguments(argv, count_at) ==
    \/ Len(argv) < 2
    \/ JsonLoads(argv[2]).raised
    \/ Len(argv) >= count_at /\ ParseInt(argv[count_at]).raised

\* C9: every command line with arguments writes exactly one JSON object and
\* ends without an uncaught exception; the object is an error object when an
\* argument is missing, the JSON text is malformed or the count is no integer.
C9_OneJsonObject ==
    call.op = "main" =>
        /\ ~exc.raised
        /\ Len(ret.stdout) = 1
        /\ BadArguments(call.argv,
                IF call.program = "portfolio_optimizer.py" THEN 3 ELSE 4)
              => "error" \in DOMAIN ret.stdout[1]

\* C10: execute_model never raises and returns a mapping with a boolean
\* success and an execution_time; success is true exactly when the named
\* model is registered and its function returns.
C10_ExecuteModelTotal ==
    call.op = "execute_model" =>
        /\ ~exc.raised
        /\ ret.success \in BOOLEAN
        /\ "execution_time" \in DOMAIN ret
        /\ (IF ret.success THEN "results" ELSE "error") \in DOMAIN ret
        /\ ret.success <=>
              /\ IsMapping(call.request)
              /\ Get(call.request, "model_name", "") \in RegisteredModels
              /\ ~ModelFunction(Get(call.request, "model_name", ""),
                                Get(call.request, "parameters", <<>>),
                                Get(call.request, "input_data", <<>>)).raised

\* C11: with fewer than two assets optimize() returns success=false, no
\* weights and the message that two assets are required, without the solver;
\* calculate_efficient_frontier() returns success=false and no points from
\* its first check; neither raises.
C11_TooFewAssets ==
    Len(assets) < 2 =>
        /\ call.op = "optimize" =>
              /\ ~exc.raised
              /\ ~call.solver
              /\ ret.success = FALSE
              /\ ret.optimal_weights = <<>>
              /\ ret.error_message = "At least 2 assets required for optimization"
        /\ call.op = "calculate_efficient_frontier" =>
              /\ ~exc.raised
              /\ ret.success = FALSE
              /\ ret.points = <<>>
              /\ ret.error_message
                    = "At least 2 assets required for efficient frontier"

\* C11 witness: a frontier was asked of an optimizer that holds one asset
C11_Witness ==
    /\ Len(assets) = 1
    /\ call.op = "calculate_efficient_frontier"
    /\ call.num_points > 0
    /\ optParameters.method = "mean_variance"

\* C12: when the solver of optimize() gives no weights, because it did not
\* converge or because it raised, optimize() returns success=false, no
\* weights and a message, and raises nothing.
C12_NonConvergenceReported ==
    (call.op = "optimize" /\ call.solver /\ ~call.converged) =>
        /\ ~exc.raised
        /\ ret.success = FALSE
        /\ ret.optimal_weights = <<>>
        /\ ret.error_message # ""

\* C12 witness: the solver of risk parity did not converge on a covariance
\* matrix it could use
C12_Witness ==
    /\ call.op = "optimize"
    /\ call.solver
    /\ ~call.converged
    /\ optParameters.method = "risk_parity"
    /\ Usable(covariance_matrix, Len(assets))

\* C13: a single-asset simulation whose returns sequence is empty ends with
\* an error outcome (success=false and a message), never with a successful
\* result that carries risk values.
C13_EmptyReturnsRejected ==
    (call.op = "simulate_single_asset"
        /\ call.asset.historical_returns = <<>>) =>
        /\ ret.success = FALSE
        /\ ret.error_message # ""

\* A result that tells its caller it was computed by a stand-in: a field
\* simplified, or an entry simplified of its metadata, that is true
Simplified(result) ==
    \/ "simplified" \in DOMAIN result /\ result.simplified = TRUE
    \/ /\ "simplified" \in DOMAIN result.optimization_metadata
       /\ result.optimization_metadata.simplified = TRUE

\* C14: every OptimizationResult of optimize() with method black_litterman
\* or mean_cvar is flagged simplified=true; stated here for the results that
\* carry the weights of the mean-variance solver.
C14_SimplifiedFlagged ==
    (call.op = "optimize"
        /\ optParameters.method \in {"black_litterman", "mean_cvar"}
        /\ ret.success)
    => Simplified(ret)

\* C15: an engine that returns a successful result ran with a non-empty
\* confidence_levels list whose every element is strictly between 0 and 1.
C15_ConfidenceLevelsValid ==
    (call.op \in {"simulate_single_asset", "simulate_portfolio"}
        /\ ret.success)
    => /\ parameters.confidence_levels # <<>>
       /\ \A i \in DOMAIN parameters.confidence_levels :
             InUnit(parameters.confidence_levels[i])

\* C16: constructing PortfolioParameters with two or more assets and no
\* correlation matrix completes and gives a square matrix with one row and
\* one column per asset.
C16_CorrelationMatrixSquare ==
    (call.op = "PortfolioParameters" /\ Len(call.assets) >= 2
        /\ call.correlation_matrix = None)
    => /\ ~exc.raised
       /\ Len(ret.correlation_matrix) = Len(call.assets)
       /\ \A i \in DOMAIN ret.correlation_matrix :
             Len(ret.correlation_matrix[i]) = Len(call.assets)

\* The SimulationResult simulate_single_asset constructed for the first
\* scenario of a stress test, from the state of the generator at the call
FirstConstructed ==
    SimulateSingleAsset(parameters, [rng EXCEPT !.pos = 0],
        StressedAsset(call.asset, call.scenarios[1].params).value).result

\* C17: a result record is not modified after the operation that constructed
\* it has built it: the result perform_stress_test returns for a scenario is
\* the record simulate_single_asset constructed for it, field by field.
C17_ResultsNotModified ==
    (call.op = "perform_stress_test" /\ ~exc.raised
        /\ Len(call.scenarios) > 0)
    => ret[call.scenarios[1].name] = FirstConstructed

\* C18: a well-formed POST to /monte-carlo/var, /portfolio/optimize or
\* /quant-models/execute reaches the computation of its route, and is
\* answered with success=false and status 500 only when that computation
\* itself failed; otherwise the answer is success=true with a result.
C18_PostReachesComputation ==
    (call.op = "POST" /\ call.body.json)
    => /\ ret.computed
       /\ ret.success <=> ret.status = 200

\* C19: each invocation owns its generator state: in every interleaving of
\* two invocations, a seeded invocation that has finished drew the variates
\* its seed gives when it runs alone.
C19_SeededDrawsAsAlone ==
    \A i \in 1..2 :
        (ret[i].done /\ call[i].seed # None)
        => ret[i].draws =
             Variates([seed |-> call[i].seed.value, pos |-> 0], NumDraws).draws

\* The returns the generator gives for a mean and a volatility, from the
\* state of the engine's generator at the call
GeneratedFrom(mean, volatility) ==
    GenerateReturns(parameters, [rng EXCEPT !.pos = 0], mean, volatility).value.returns

\* C20: in simulate_single_asset the mean and volatility passed to the
\* return generator are the sample mean and the Bessel-corrected standard
\* deviation of the history whenever the history is not empty, whatever the
\* scalars of the asset; the scalars are passed only when it is empty.
C20_HistoryOverridesScalars ==
    (call.op = "simulate_single_asset" /\ call.step = "done")
    => IF call.asset.historical_returns # <<>>
       THEN /\ \A i \in DOMAIN call.asset.historical_returns :
                 IsNumber(call.asset.historical_returns[i])
            /\ ret.simulation_metadata.estimated_mean =
                 RMean(call.asset.historical_returns)
            /\ ret.simulation_metadata.estimated_volatility =
                 StdDdof1(call.asset.historical_returns)
            /\ ret.simulated_returns =
                 GeneratedFrom(RMean(call.asset.historical_returns),
                               StdDdof1(call.asset.historical_returns))
       ELSE /\ ret.simulation_metadata.estimated_mean =
                 call.asset.expected_return
            /\ ret.simulation_metadata.estimated_volatility =
                 call.asset.volatility
            /\ ret.simulated_returns =
                 GeneratedFrom(call.asset.expected_return,
                               call.asset.volatility)

\* A simulation of an asset with a history went through with estimates that
\* differ from its scalars
C20_Witness ==
    /\ call.op = "simulate_single_asset"
    /\ call.step = "done"
    /\ call.asset = HistOtherAsset
    /\ ret.simulation_metadata.estimated_mean = RInt(0)
    /\ ret.simulation_metadata.estimated_mean # call.asset.expected_return
    /\ ret.simulation_metadata.estimated_volatility # call.asset.volatility

\* C21: a distribution family without a generator gives an error outcome,
\* never samples of another family: a simulation of an engine whose
\* distribution_type has no entry in the table of generators does not
\* succeed.
C21_UnsupportedFamilyIsError ==
    (call.op = "simulate_single_asset"
        /\ parameters.distribution_type \notin Distributions)
    => ~ret.success

\* The target returns of the frontier call, and the i-th target, in the
\* order of the loop, among the targets of the set solved
TargetReturns ==
    Linspace(NpMin(expected_returns), NpMax(expected_returns),
             call.num_points).value
NthOf(solved, i) ==
    CHOOSE k \in solved : Cardinality({j \in solved : j < k}) = i - 1

\* The weights are a solution the solver can give for the target return
SolvedBy(weights, target_return) ==
    \E w \in OptimizeForTargetReturn(optParameters, Len(assets),
                 expected_returns, covariance_matrix, target_return) :
        weights = w

\* C22: calculate_efficient_frontier(M) solves each of its M target returns
\* at most once and adds one point for each target whose solve gave weights
\* and none for the others: there is a set of solved targets that the points
\* match one to one, each point being a solution for its target; the points
\* are in non-decreasing order of expected_return, there are at most M of
\* them, and success is false exactly when there is no point.
C22_OnePointPerSolvedTarget ==
    (call.op = "calculate_efficient_frontier" /\ Len(assets) >= 2
        /\ call.num_points >= 0)
    => /\ Len(ret.points) <= call.num_points
       /\ \A i \in 1..(Len(ret.points) - 1) :
             RLeq(ret.points[i].expected_return,
                  ret.points[i + 1].expected_return)
       /\ ret.success <=> ret.points # <<>>
       /\ \E solved \in SUBSET (1..call.num_points) :
            /\ Cardinality(solved) = Len(ret.points)
            /\ \A i \in 1..Len(ret.points) :
                 SolvedBy(ret.points[i].weights,
                          TargetReturns[NthOf(solved, i)])

\* A frontier of three targets of which one was not solved
C22_Witness ==
    /\ call.op = "calculate_efficient_frontier"
    /\ call.num_points = 3
    /\ ret.success
    /\ Len(ret.points) = 2
    /\ ret.points[1].expected_return # ret.points[2].expected_return

\* Every asset held has a history and the histories have one length
EqualHistories ==
    /\ \A i \in DOMAIN assets : assets[i].historical_returns # <<>>
    /\ \A i, j \in DOMAIN assets :
          Len(assets[i].historical_returns) = Len(assets[j].historical_returns)

\* C23: when the matrices of an optimizer with two or more assets are
\* updated, the covariance is the sample covariance of the histories exactly
\* when every asset has a history and the histories have the same length;
\* in every other case it is the covariance built from the volatilities
\* with correlation 0.3, and the update completes without error.
C23_CovarianceSource ==
    (call.op \in {"add_asset", "add_assets"} /\ Len(assets) >= 2)
    => /\ ~exc.raised
       /\ IF EqualHistories
          THEN covariance_matrix =
                  NpCov([i \in DOMAIN assets |-> assets[i].historical_returns])
          ELSE covariance_matrix = VolatilityCovariance(assets)

\* C24: in every simulate_portfolio result with success=true the weights
\* reported as portfolio_weights, which are the weights the aggregation
\* applies to the assets, are one per asset and sum to 1, whatever weights
\* list was supplied.
C24_WeightsNormalized ==
    (call.op = "simulate_portfolio" /\ ret.success)
    => /\ Len(ret.simulation_metadata.portfolio_weights) =
             Len(call.portfolio.assets)
       /\ RSum([j \in DOMAIN call.portfolio.assets |->
                  ret.simulation_metadata.portfolio_weights[j]]) = RInt(1)

\* C25: in every successful portfolio result whose assets were simulated,
\* whatever the configured confidence levels, marginal_var[i] is the VaR at
\* confidence 0.95 of asset i's own simulated returns, component_var[i] is
\* the normalized weight of asset i times marginal_var[i], var_contributions
\* equals component_var, and the three lists have one entry per asset.
C25_RiskAttribution ==
    (call.op = "simulate_portfolio" /\ ret.success
        /\ Len(call.portfolio.weights) = Len(call.portfolio.assets)
        /\ \A i \in DOMAIN ret.asset_results : ret.asset_results[i].success)
    => /\ Len(ret.marginal_var) = Len(call.portfolio.assets)
       /\ Len(ret.component_var) = Len(call.portfolio.assets)
       /\ Len(ret.var_contributions) = Len(call.portfolio.assets)
       /\ ret.var_contributions = ret.component_var
       /\ \A i \in DOMAIN call.portfolio.assets :
            /\ ret.marginal_var[i] =
                 EngineVar(ret.asset_results[i].simulated_returns,
                           AttributionLevel).value
            /\ ret.component_var[i] =
                 RMul(NormalizedWeights(call.portfolio.weights)[i],
                      ret.marginal_var[i])

\* The names of the scenarios of the stress test called
ScenarioNames == {call.scenarios[i].name : i \in DOMAIN call.scenarios}

\* C26: perform_stress_test returns a mapping with exactly one entry per
\* scenario name; each entry carries its own scenario name and parameters in
\* its metadata, also when its simulation failed, and the entry of the first
\* scenario is otherwise the result simulate_single_asset gives for the
\* shocked asset.
C26_OneTaggedResultPerScenario ==
    (call.op = "perform_stress_test")
    => /\ ~exc.raised
       /\ DOMAIN ret = ScenarioNames
       /\ \A i \in DOMAIN call.scenarios :
            /\ ret[call.scenarios[i].name].simulation_metadata.stress_scenario
                 = call.scenarios[i].name
            /\ ret[call.scenarios[i].name].simulation_metadata.stress_parameters
                 = call.scenarios[i].params
       /\ [ret[call.scenarios[1].name] EXCEPT !.simulation_metadata =
              FirstConstructed.simulation_metadata] = FirstConstructed

\* C27: within one simulate_portfolio run the simulation of an asset does
\* not depend on the other assets nor on its place in the list: the
\* SimulationResult of every asset is the one simulate_single_asset gives
\* for it as the first asset of the run.
C27_AssetResultsIndependent ==
    (call.op = "simulate_portfolio" /\ ret.success)
    => \A i \in DOMAIN ret.asset_results :
          ret.asset_results[i] =
             SimulateSingleAsset(parameters, [rng EXCEPT !.pos = 0],
                                 call.portfolio.assets[i]).result

\* C28: a PortfolioSimulationResult with success=true holds only
\* SimulationResults with success=true: simulate_portfolio does not
\* aggregate the series of an asset whose simulation failed.
C28_NoFailedAssetAggregated ==
    (call.op = "simulate_portfolio" /\ ret.success)
    => \A i \in DOMAIN ret.asset_results : ret.asset_results[i].success

\* The mean and volatility a scenario's simulation recorded as passed to the
\* generator are those of the pair
EstimatesOf(name, mean, volatility) ==
    /\ ret[name].simulation_metadata.estimated_mean = mean
    /\ ret[name].simulation_metadata.estimated_volatility = volatility

\* C29: in perform_stress_test, when the base asset has a history, the mean
\* and volatility used to generate returns are the estimates of the history
\* in every scenario, whatever its multipliers; the multipliers scale the
\* parameters of the simulation only when the base asset has no history.
C29_StressIgnoredWithHistory ==
    (call.op = "perform_stress_test" /\ ~exc.raised)
    => \A i \in DOMAIN call.scenarios :
         ret[call.scenarios[i].name].success
         => IF call.asset.historical_returns # <<>>
            THEN /\ \A k \in DOMAIN call.asset.historical_returns :
                       IsNumber(call.asset.historical_returns[k])
                 /\ EstimatesOf(call.scenarios[i].name,
                        RMean(call.asset.historical_returns),
                        StdDdof1(call.asset.historical_returns))
            ELSE EstimatesOf(call.scenarios[i].name,
                    StressedAsset(call.asset,
                        call.scenarios[i].params).value.expected_return,
                    StressedAsset(call.asset,
                        call.scenarios[i].params).value.volatility)

\* A stress test of an asset with a history went through two scenarios with
\* different multipliers, and both simulations used the mean of the history
C29_Witness ==
    /\ call.op = "perform_stress_test"
    /\ ~exc.raised
    /\ call.asset = HistOtherAsset
    /\ Len(call.scenarios) = 2
    /\ call.scenarios[1].params # call.scenarios[2].params
    /\ \A i \in 1..2 :
         /\ ret[call.scenarios[i].name].success
         /\ ret[call.scenarios[i].name].simulation_metadata.estimated_mean
               = RInt(0)
         /\ StressedAsset(call.asset,
                call.scenarios[i].params).value.volatility
               # ret[call.scenarios[i].name].simulation_metadata.estimated_volatility

\* The covariance _update_matrices computes from the asset list held
CovarianceOfAssets ==
    IF \A i \in DOMAIN assets : assets[i].historical_returns # <<>>
    THEN NpCov([i \in DOMAIN assets |-> assets[i].historical_returns])
    ELSE VolatilityCovariance(assets)

\* C30: after any sequence of add_asset and add_assets calls, also when a
\* matrix update failed, an optimizer holding n >= 2 assets has an
\* expected_returns vector of length n and an n-by-n covariance matrix, both
\* computed from the current asset list; with fewer than 2 assets both are
\* unset.
C30_MatricesMatchAssets ==
    IF Len(assets) < 2
    THEN expected_returns = None /\ covariance_matrix = None
    ELSE /\ expected_returns = ExpectedReturns(assets)
         /\ covariance_matrix # None
         /\ Len(covariance_matrix) = Len(assets)
         /\ \A i \in DOMAIN covariance_matrix :
               Len(covariance_matrix[i]) = Len(assets)
         /\ covariance_matrix = CovarianceOfAssets
====
